---- MODULE Spec2Model ----
(***************************************************************************)
(* State-machine model of the serial logger firmware: the SD card          *)
(* lifecycle (sd_card.c), the UART ingestion task and the log forwarding   *)
(* broker (uart_logger.c), the console commands that drive them            *)
(* (commands.c), and the earlier relay-task forwarding variant             *)
(* (uart_log_reader_task.c) with its queue-forwarding logger.              *)
(*                                                                         *)
(* Spec      storage lifecycle: logger task + consoles typing SD commands  *)
(* SpecFair  Spec with weak fairness of every task's own steps             *)
(* SpecFwd   forwarding broker: logger task + connect_log/disconnect_log   *)
(* SpecRelay relay-task build: logger, log reader task, start/stop calls   *)
(*                                                                         *)
(* The CLI is written for several console tasks, each with its own         *)
(* CLIContext; two of them are modelled.                                   *)
(*                                                                         *)
(* Tasks run on one core under a preemptive scheduler: every step below    *)
(* touches shared state at most once, and steps of different tasks         *)
(* interleave freely.  A pthread mutex is the set of tasks that hold it    *)
(* (at most one when locking is correct).                                  *)
(***************************************************************************)
EXTENDS Integers, Sequences, FiniteSets, TLC

\* ---------------------------------------------------------------- bounds
MaxReads == 1
MaxCmds == 2    \* console commands typed in total
BufLen == 2     \* units in a multi-unit write buffer (boot text, timestamp, argv[1])
MaxEnq == 66    \* bytes the queue-forwarding logger reads in SpecRing
MaxTapReads == 2  \* bytes the line delivers in SpecTap
MaxStops == 3   \* start_log_reader / stop_log_reader calls in SpecHandshake
MaxKeys == 9    \* keys typed on the console in SpecCli
MaxRttIn == 3   \* bytes one rtt command reads from its console
MaxWords == 9   \* words on a line handed to handle_command in SpecArgs
MaxMounts == 4   \* console commands typed in SpecSettle
MaxPowerCmds == 3   \* console commands typed in SpecPower
MaxFwdCmds == 4   \* connect_log / disconnect_log commands typed in SpecHandover
MaxArgLine == 32  \* line capacity handle_command is run with in SpecArgs (cli.h has 80)
CLI_MAX_LINE == 4  \* capacity of a line buffer (cli.h has 80)

Consoles == {"c1", "c2"}
ING == "ing"
RDR == "rdr"
Tasks == Consoles \cup {ING, RDR}
NULL == "NULL"

VARIABLES
    \* sd_card.c globals
    SD_CARD_MOUNTED,    \* bool SD_CARD_MOUNTED
    SD_CARD_RW_MUTEX,   \* tasks holding the mutex
    SD_CARD_READY,      \* tasks blocked on the condition variable
    LOGFILE,            \* TRUE iff the FIL object is open
    SDSPI_HANDLE,       \* TRUE iff the SPI bus driver is open
    vcc,                \* Board_SDCARD_VCC
    card,               \* bytes of 0:uart_log.txt on the card
    \* uart_logger.c globals
    LOG_FORWARD_MUTEX, LOG_VAR_MUTEX, FORWARD_UART_LOGS, CONTEXT,
    cliOut,             \* <<context, byte>> pairs written with cli_write
    \* uart_log_reader_task.c globals, and the queue of the forwarding logger
    LOG_READER_CTX_MUTEX, log_reader_sem, shutdown_ack_sem,
    uart_log_queue,     \* the Queue's links: next and prev of every Queue_Elem
    queue_elements,     \* data of queue_elements[MAX_QUEUE]
    queue_idx, logger_data_avail_sem,
    \* tasks
    pc, stk, ret, fresult, widx, wbuf, hw, out, rc,
    read_char, nread, ncmd, aborted,
    \* cli.c: the CLIContext of one console and the local of start_cli
    lines,          \* lines[CLI_BUFCNT]: line_buf and len
    line_idx,
    cursor,         \* char *cursor, as a byte address relative to lines[0].line_buf
    current_line,   \* start_cli's local CLI_Line *current_line (an index into lines)
    cli_pc,         \* "prompt": top of start_cli's outer loop; "read": at cli_read
    term, tcol,     \* the terminal: text on the line after the prompt, cursor column
    cmd,            \* argument of the handle_command call of the last CR, if it made one
    typed,          \* the printable and backspace keys since the prompt, as a stack
    esc_echoed,     \* an unrecognised escape sequence was echoed since the prompt
    esc_buf,        \* cli_handle_esc's esc_buf after its cli_read; <<>> for any other key
    submitted,      \* the last CLI_HISTORY lines handed to handle_command, oldest first
    ups,            \* Up keys since the prompt if no other key came since, else NoUps
    nkeys,
    smashed,        \* an access through cursor or len went outside a line_buf
    \* commands.c, realtime_terminal
    rtt_in,         \* bytes ctx->cli_read has delivered to the running rtt command
    uartTx,         \* <<session, byte>> pairs written to the logged line (write_to_logger)
    \* commands.c, handle_command: one call
    hc_cmd,         \* the string cmd it was called with
    hc_entry,       \* cmd_name of the entry whose cmd_fxn it called, if any
    hc_argv,        \* the strings argv[0..argc-1] handed to cmd_fxn
    hc_argc,
    hc_out,         \* what handle_command itself printed
    hc_ret,
    hc_pc,          \* "idle", "returned" or "fault"
    \* ff.h, the FIL object LOGFILE
    fsize,          \* LOGFILE.fsize, in units written
    \* the revision of sd_card.c with the settle delay
    FIRST_INIT,
    nattempt        \* mount attempts that got past the already-mounted test, so far

sdVars == <<SD_CARD_MOUNTED, SD_CARD_RW_MUTEX, SD_CARD_READY, LOGFILE,
            SDSPI_HANDLE, vcc, card>>
fwdVars == <<LOG_FORWARD_MUTEX, LOG_VAR_MUTEX, FORWARD_UART_LOGS, CONTEXT, cliOut>>
locVars == <<ret, fresult, widx, wbuf, hw, out, rc, read_char>>
rdrVars == <<LOG_READER_CTX_MUTEX, log_reader_sem, shutdown_ack_sem,
             uart_log_queue, queue_elements, queue_idx, logger_data_avail_sem>>
envVars == <<nread, ncmd, aborted>>
cliVars == <<lines, line_idx, cursor, current_line, cli_pc, term, tcol, cmd, typed,
             esc_echoed, esc_buf, submitted, ups, nkeys, smashed>>
rttVars == <<rtt_in, uartTx>>
hcVars == <<hc_cmd, hc_entry, hc_argv, hc_argc, hc_out, hc_ret, hc_pc>>
filVars == <<fsize>>
initVars == <<FIRST_INIT, nattempt>>
nonCliVars == <<sdVars, fwdVars, rdrVars, pc, stk, locVars, envVars, rttVars, hcVars,
                filVars, initVars>>
restVars == <<cliVars, rttVars, hcVars, filVars, initVars>>
vars == <<sdVars, fwdVars, rdrVars, pc, stk, locVars, envVars, cliVars, rttVars, hcVars,
          filVars, initVars>>

\* ------------------------------------------------------- control helpers
Goto(t, l) == pc' = [pc EXCEPT ![t] = l]
Call(t, entry, cont) ==
    /\ pc' = [pc EXCEPT ![t] = entry]
    /\ stk' = [stk EXCEPT ![t] = <<cont>> \o @]
Return(t) ==
    /\ pc' = [pc EXCEPT ![t] = Head(stk[t])]
    /\ stk' = [stk EXCEPT ![t] = Tail(@)]
B2I(b) == IF b THEN 1 ELSE 0
\* System_abort stops the whole program: no task runs after it.
At(t, l) == ~aborted /\ pc[t] = l

\* Faulty variant: a lock that excludes nobody.
CanLockSD_unguarded(t) == TRUE
\* pthread_mutex_lock(&SD_CARD_RW_MUTEX) returns once no task holds the mutex.
CanLockSD(t) == SD_CARD_RW_MUTEX = {}

\* ---- ti/sysbios/knl/Queue as the logger uses it: an intrusive doubly linked
\* list.  Nodes 0..MAX_QUEUE-1 are queue_elements[i].elem, node QHead is the
\* Queue object's own element.
MAX_QUEUE == 64
QHead == MAX_QUEUE
QNodes == 0..MAX_QUEUE
EmptyQueue == [next |-> [n \in QNodes |-> QHead], prev |-> [n \in QNodes |-> QHead]]

\* Queue_empty: obj->elem.next == &obj->elem
Queue_empty(q) == q.next[QHead] = QHead

\* Queue_put: elem->next = obj; elem->prev = obj->prev; obj->prev->next = elem;
\* obj->prev = elem.  Nothing checks whether elem is already linked.
Queue_put(q, e) ==
    LET n1 == [q.next EXCEPT ![e] = QHead]
        p1 == [q.prev EXCEPT ![e] = q.prev[QHead]]
        n2 == [n1 EXCEPT ![p1[QHead]] = e]
        p2 == [p1 EXCEPT ![QHead] = e]
    IN  [next |-> n2, prev |-> p2]

\* Queue_get: elem = obj->next; obj->next = elem->next; elem->next->prev = obj.
\* The links left in the removed element are dead values: Queue_put writes
\* both before anything reads them.  They are recorded as QHead.
Queue_head(q) == q.next[QHead]
Queue_get(q) ==
    LET e == q.next[QHead]
        n1 == [q.next EXCEPT ![QHead] = q.next[e]]
        p1 == [q.prev EXCEPT ![q.next[e]] = QHead]
    IN  [next |-> [n1 EXCEPT ![e] = QHead], prev |-> [p1 EXCEPT ![e] = QHead]]

\* The state when BIOS starts the tasks; ingEntry is the logger task's entry.
\* ---- cli.h, cli.c: constants and cli_context_init
CLI_HISTORY == 3
CLI_BUFCNT == CLI_HISTORY + 2
CLI_EMPTY_LINELEN == -1
Chars == {"a", "b"}
NUL == "NUL"
JUNK == "?"
SP == " "
NoCmd == <<"none">>
NoUps == -1
NoStack == <<"n/a">>
\* sizeof(CLI_Line): line_buf[CLI_MAX_LINE] followed by int len
SizeofLine == CLI_MAX_LINE + 4

\* cli_context_init on the console task's local CLIContext: cursor = NULL,
\* line_idx = 0, every len = CLI_EMPTY_LINELEN.  The line buffers are left
\* as they were on the stack; JUNK stands for such a byte.
CliInit ==
    /\ lines = [i \in 0..(CLI_BUFCNT - 1) |->
                 [line_buf |-> [j \in 0..(CLI_MAX_LINE - 1) |-> JUNK],
                  len |-> CLI_EMPTY_LINELEN]]
    /\ line_idx = 0
    /\ cursor = 0
    /\ current_line = 0
    /\ cli_pc = "prompt"
    /\ term = <<>>
    /\ tcol = 0
    /\ cmd = NoCmd
    /\ typed = <<>>
    /\ esc_echoed = FALSE
    /\ esc_buf = <<>>
    /\ submitted = <<>>
    /\ ups = 0
    /\ nkeys = 0
    /\ smashed = FALSE

\* handle_command has not been called
NoEntry == <<>>
HcInit ==
    /\ hc_cmd = <<>>
    /\ hc_entry = NoEntry
    /\ hc_argv = <<>>
    /\ hc_argc = 0
    /\ hc_out = ""
    /\ hc_ret = 0
    /\ hc_pc = "idle"

\* nothing has been typed into an rtt command or written to the logged line
RttInit ==
    /\ rtt_in = [t \in Tasks |-> <<>>]
    /\ uartTx = <<>>

InitAt(ingEntry) ==
    /\ SD_CARD_MOUNTED = FALSE
    /\ SD_CARD_RW_MUTEX = {}
    /\ SD_CARD_READY = {}
    /\ LOGFILE = FALSE
    /\ SDSPI_HANDLE = FALSE
    /\ vcc = FALSE
    /\ card = <<>>
    /\ LOG_FORWARD_MUTEX = {}
    /\ LOG_VAR_MUTEX = {}
    /\ FORWARD_UART_LOGS = FALSE
    /\ CONTEXT = NULL
    /\ cliOut = <<>>
    /\ LOG_READER_CTX_MUTEX = {}
    /\ log_reader_sem = 0
    /\ shutdown_ack_sem = 0
    /\ uart_log_queue = EmptyQueue
    /\ queue_elements = [e \in 0..(MAX_QUEUE - 1) |-> 0]
    /\ queue_idx = 0
    /\ logger_data_avail_sem = 0
    /\ pc = [t \in Tasks |-> CASE t = ING -> ingEntry
                               [] t = RDR -> "r_pend"
                               [] OTHER -> "idle"]
    /\ stk = [t \in Tasks |-> <<>>]
    /\ ret = [t \in Tasks |-> 0]
    /\ fresult = [t \in Tasks |-> 0]
    /\ widx = [t \in Tasks |-> 0]
    /\ wbuf = [t \in Tasks |-> 0]
    /\ hw = [t \in Tasks |-> <<>>]
    /\ out = [t \in Tasks |-> ""]
    /\ rc = [t \in Tasks |-> 0]
    /\ read_char = 0
    /\ nread = 0
    /\ ncmd = 0
    /\ aborted = FALSE
    /\ CliInit
    /\ RttInit
    /\ HcInit
    /\ fsize = 0
    /\ FIRST_INIT = TRUE
    /\ nattempt = 0

Init == InitAt("i_boot")

\* ===================================================== sd_card.c
\* ---- attempt_sd_mount
AmLock(t) ==
    /\ At(t, "am_lock")
    /\ CanLockSD(t)
    /\ SD_CARD_RW_MUTEX' = SD_CARD_RW_MUTEX \cup {t}
    /\ hw' = [hw EXCEPT ![t] = <<>>]
    /\ Goto(t, "am_check")
    /\ UNCHANGED <<SD_CARD_MOUNTED, SD_CARD_READY, LOGFILE, SDSPI_HANDLE, vcc, card,
                   fwdVars, rdrVars, stk, ret, fresult, widx, wbuf, out, rc, read_char,
                   envVars, restVars>>

\* Faulty variant: attempt_sd_mount without its already-mounted test.
AmCheck_reinit(t) ==
    /\ At(t, "am_check")
    /\ vcc' = TRUE
    /\ SDSPI_HANDLE' = TRUE
    /\ hw' = [hw EXCEPT ![t] = @ \o <<"vcc_on", "SDSPI_open">>]
    /\ Goto(t, "am_probe")
    /\ UNCHANGED <<SD_CARD_MOUNTED, SD_CARD_RW_MUTEX, SD_CARD_READY, LOGFILE, card,
                   fwdVars, rdrVars, stk, ret, fresult, widx, wbuf, out, rc,
                   read_char, envVars, restVars>>

\* if (SD_CARD_MOUNTED) ... else GPIO_write(VCC, on); SDSPI_open(); NULL aborts.
AmCheck(t) ==
    /\ At(t, "am_check")
    /\ IF SD_CARD_MOUNTED
       THEN /\ Goto(t, "am_early_unlock")
            /\ UNCHANGED <<vcc, SDSPI_HANDLE, hw, aborted>>
       ELSE /\ vcc' = TRUE
            /\ hw' = [hw EXCEPT ![t] = @ \o <<"vcc_on", "SDSPI_open">>]
            /\ IF SDSPI_HANDLE
               THEN aborted' = TRUE /\ UNCHANGED <<SDSPI_HANDLE, pc>>
               ELSE SDSPI_HANDLE' = TRUE /\ Goto(t, "am_probe") /\ UNCHANGED aborted
    /\ UNCHANGED <<SD_CARD_MOUNTED, SD_CARD_RW_MUTEX, SD_CARD_READY, LOGFILE, card,
                   fwdVars, rdrVars, stk, ret, fresult, widx, wbuf, out, rc, read_char,
                   nread, ncmd, restVars>>

\* success = SD_CARD_MOUNTED = sd_online(...): f_getfree answers or not.
AmProbe(t) ==
    /\ At(t, "am_probe")
    /\ \E online \in BOOLEAN :
        /\ SD_CARD_MOUNTED' = online
        /\ hw' = [hw EXCEPT ![t] = Append(@, "f_getfree")]
        /\ ret' = [ret EXCEPT ![t] = B2I(online)]
    /\ Goto(t, "am_finish")
    /\ UNCHANGED <<SD_CARD_RW_MUTEX, SD_CARD_READY, LOGFILE, SDSPI_HANDLE, vcc, card,
                   fwdVars, rdrVars, stk, fresult, widx, wbuf, out, rc, read_char,
                   envVars, restVars>>

\* Faulty variant: attempt_sd_mount that leaves bus and power up when the
\* probe failed.
AmFinish_norollback(t) ==
    /\ At(t, "am_finish")
    /\ IF ret[t] = 1
       THEN /\ LOGFILE' = TRUE
            /\ fsize' = Len(card)
            /\ SD_CARD_READY' = {}
            /\ hw' = [hw EXCEPT ![t] = @ \o <<"f_open", "broadcast">>]
       ELSE UNCHANGED <<LOGFILE, fsize, SD_CARD_READY, hw>>
    /\ Goto(t, "am_unlock")
    /\ UNCHANGED <<SD_CARD_MOUNTED, SD_CARD_RW_MUTEX, card, SDSPI_HANDLE, vcc,
                   fwdVars, rdrVars, stk, ret, fresult, widx, wbuf, out, rc, read_char,
                   envVars, cliVars, rttVars, hcVars, initVars>>

\* open_file + pthread_cond_broadcast, or SDSPI_close + power off.
\* open_file returns false on a filesystem fault (f_open or f_lseek fails, the
\* file object is left closed): System_abort, with the mutex still held.
AmFinish(t) ==
    /\ At(t, "am_finish")
    /\ IF ret[t] = 1
       THEN \E opened \in BOOLEAN :
            IF opened
            THEN /\ LOGFILE' = TRUE
                 /\ fsize' = Len(card)
                 /\ SD_CARD_READY' = {}
                 /\ hw' = [hw EXCEPT ![t] = @ \o <<"f_open", "broadcast">>]
                 /\ Goto(t, "am_unlock")
                 /\ UNCHANGED <<SDSPI_HANDLE, vcc, aborted>>
            ELSE /\ LOGFILE' = FALSE
                 /\ hw' = [hw EXCEPT ![t] = @ \o <<"f_open">>]
                 /\ aborted' = TRUE
                 /\ UNCHANGED <<SD_CARD_READY, SDSPI_HANDLE, vcc, pc, fsize>>
       ELSE /\ SDSPI_HANDLE' = FALSE
            /\ vcc' = FALSE
            /\ hw' = [hw EXCEPT ![t] = @ \o <<"SDSPI_close", "vcc_off">>]
            /\ Goto(t, "am_unlock")
            /\ UNCHANGED <<LOGFILE, SD_CARD_READY, aborted, fsize>>
    /\ UNCHANGED <<SD_CARD_MOUNTED, SD_CARD_RW_MUTEX, card,
                   fwdVars, rdrVars, stk, ret, fresult, widx, wbuf, out, rc, read_char,
                   nread, ncmd, cliVars, rttVars, hcVars, initVars>>

AmUnlock(t) ==
    /\ At(t, "am_unlock")
    /\ SD_CARD_RW_MUTEX' = SD_CARD_RW_MUTEX \ {t}
    /\ Return(t)
    /\ UNCHANGED <<SD_CARD_MOUNTED, SD_CARD_READY, LOGFILE, SDSPI_HANDLE, vcc, card,
                   fwdVars, rdrVars, locVars, envVars, restVars>>

\* Already mounted: unlock first ...
AmEarlyUnlock(t) ==
    /\ At(t, "am_early_unlock")
    /\ SD_CARD_RW_MUTEX' = SD_CARD_RW_MUTEX \ {t}
    /\ Goto(t, "am_early_ret")
    /\ UNCHANGED <<SD_CARD_MOUNTED, SD_CARD_READY, LOGFILE, SDSPI_HANDLE, vcc, card,
                   fwdVars, rdrVars, stk, locVars, envVars, restVars>>

\* ... then `return SD_CARD_MOUNTED;`, read after the mutex was released.
AmEarlyRet(t) ==
    /\ At(t, "am_early_ret")
    /\ ret' = [ret EXCEPT ![t] = B2I(SD_CARD_MOUNTED)]
    /\ Return(t)
    /\ UNCHANGED <<sdVars, fwdVars, rdrVars, fresult, widx, wbuf, hw, out, rc,
                   read_char, envVars, restVars>>

\* ---- unmount_sd_card
UmLock(t) ==
    /\ At(t, "um_lock")
    /\ CanLockSD(t)
    /\ SD_CARD_RW_MUTEX' = SD_CARD_RW_MUTEX \cup {t}
    /\ hw' = [hw EXCEPT ![t] = <<>>]
    /\ Goto(t, "um_body")
    /\ UNCHANGED <<SD_CARD_MOUNTED, SD_CARD_READY, LOGFILE, SDSPI_HANDLE, vcc, card,
                   fwdVars, rdrVars, stk, ret, fresult, widx, wbuf, out, rc, read_char,
                   envVars, restVars>>

\* Faulty variant: unmount_sd_card without its f_close.
UmBody_noclose(t) ==
    /\ At(t, "um_body")
    /\ vcc' = FALSE
    /\ SDSPI_HANDLE' = FALSE
    /\ SD_CARD_MOUNTED' = FALSE
    /\ hw' = [hw EXCEPT ![t] = <<"f_sync", "vcc_off", "SDSPI_close">>]
    /\ Goto(t, "um_unlock")
    /\ UNCHANGED <<SD_CARD_RW_MUTEX, SD_CARD_READY, LOGFILE, card,
                   fwdVars, rdrVars, stk, ret, fresult, widx, wbuf, out, rc, read_char,
                   envVars, restVars>>

\* Faulty variant: unmount_sd_card that broadcasts SD_CARD_READY.
UmBody_notify(t) ==
    /\ At(t, "um_body")
    /\ LOGFILE' = FALSE
    /\ vcc' = FALSE
    /\ SDSPI_HANDLE' = FALSE
    /\ SD_CARD_MOUNTED' = FALSE
    /\ SD_CARD_READY' = {}
    /\ hw' = [hw EXCEPT ![t] = <<"f_sync", "f_close", "vcc_off", "SDSPI_close", "broadcast">>]
    /\ Goto(t, "um_unlock")
    /\ UNCHANGED <<SD_CARD_RW_MUTEX, card,
                   fwdVars, rdrVars, stk, ret, fresult, widx, wbuf, out, rc, read_char,
                   envVars, restVars>>

\* f_sync, f_close, power off, SDSPI_close, SD_CARD_MOUNTED = false.
UmBody(t) ==
    /\ At(t, "um_body")
    /\ LOGFILE' = FALSE
    /\ vcc' = FALSE
    /\ SDSPI_HANDLE' = FALSE
    /\ SD_CARD_MOUNTED' = FALSE
    /\ hw' = [hw EXCEPT ![t] = <<"f_sync", "f_close", "vcc_off", "SDSPI_close">>]
    /\ Goto(t, "um_unlock")
    /\ UNCHANGED <<SD_CARD_RW_MUTEX, SD_CARD_READY, card,
                   fwdVars, rdrVars, stk, ret, fresult, widx, wbuf, out, rc, read_char,
                   envVars, restVars>>

UmUnlock(t) ==
    /\ At(t, "um_unlock")
    /\ SD_CARD_RW_MUTEX' = SD_CARD_RW_MUTEX \ {t}
    /\ hw' = [hw EXCEPT ![t] = <<>>]
    /\ Return(t)
    /\ UNCHANGED <<SD_CARD_MOUNTED, SD_CARD_READY, LOGFILE, SDSPI_HANDLE, vcc, card,
                   fwdVars, rdrVars, ret, fresult, widx, wbuf, out, rc, read_char,
                   envVars, restVars>>

\* ---- the revision of attempt_sd_mount and unmount_sd_card with FIRST_INIT
\* Locking, the probe and the unlocks are those above; this revision has no
\* log file object.
\* if (SD_CARD_MOUNTED) ... else power off; SDSPI_open(); if (FIRST_INIT)
\* Task_sleep(250); power on; a NULL handle aborts.
OldAmCheck(t) ==
    /\ At(t, "am_check")
    /\ IF SD_CARD_MOUNTED
       THEN /\ Goto(t, "am_early_unlock")
            /\ UNCHANGED <<vcc, SDSPI_HANDLE, hw, aborted, nattempt>>
       ELSE /\ vcc' = TRUE
            /\ nattempt' = nattempt + 1
            /\ hw' = [hw EXCEPT ![t] = @ \o
                        (IF FIRST_INIT
                         THEN <<"vcc_off", "SDSPI_open", "Task_sleep", "vcc_on">>
                         ELSE <<"vcc_off", "SDSPI_open", "vcc_on">>)]
            /\ IF SDSPI_HANDLE
               THEN aborted' = TRUE /\ UNCHANGED <<SDSPI_HANDLE, pc>>
               ELSE SDSPI_HANDLE' = TRUE /\ Goto(t, "am_probe") /\ UNCHANGED aborted
    /\ UNCHANGED <<SD_CARD_MOUNTED, SD_CARD_RW_MUTEX, SD_CARD_READY, LOGFILE, card,
                   fwdVars, rdrVars, stk, ret, fresult, widx, wbuf, out, rc, read_char,
                   nread, ncmd, cliVars, rttVars, hcVars, filVars, FIRST_INIT>>

\* pthread_cond_broadcast, or SDSPI_close + power off.
OldAmFinish(t) ==
    /\ At(t, "am_finish")
    /\ IF ret[t] = 1
       THEN /\ SD_CARD_READY' = {}
            /\ hw' = [hw EXCEPT ![t] = Append(@, "broadcast")]
            /\ UNCHANGED <<SDSPI_HANDLE, vcc>>
       ELSE /\ SDSPI_HANDLE' = FALSE
            /\ vcc' = FALSE
            /\ hw' = [hw EXCEPT ![t] = @ \o <<"SDSPI_close", "vcc_off">>]
            /\ UNCHANGED SD_CARD_READY
    /\ Goto(t, "am_unlock")
    /\ UNCHANGED <<SD_CARD_MOUNTED, SD_CARD_RW_MUTEX, LOGFILE, card,
                   fwdVars, rdrVars, stk, ret, fresult, widx, wbuf, out, rc, read_char,
                   envVars, restVars>>

\* SDSPI_close, SD_CARD_MOUNTED = false, power off.
OldUmBody(t) ==
    /\ At(t, "um_body")
    /\ vcc' = FALSE
    /\ SDSPI_HANDLE' = FALSE
    /\ SD_CARD_MOUNTED' = FALSE
    /\ hw' = [hw EXCEPT ![t] = <<"SDSPI_close", "vcc_off">>]
    /\ Goto(t, "um_unlock")
    /\ UNCHANGED <<SD_CARD_RW_MUTEX, SD_CARD_READY, LOGFILE, card,
                   fwdVars, rdrVars, stk, ret, fresult, widx, wbuf, out, rc, read_char,
                   envVars, restVars>>

\* ---- sd_card_mounted: lock, mounted = SD_CARD_MOUNTED, unlock, return mounted.
\* The caller's step waits for the mutex (CanLockSD) and branches on the value.
SdCardMounted(t) == SD_CARD_MOUNTED

\* ---- wait_sd_ready
\* pthread_mutex_lock, then pthread_cond_wait releases the mutex and blocks.
WsLock(t) ==
    /\ At(t, "ws_lock")
    /\ CanLockSD(t)
    /\ SD_CARD_READY' = SD_CARD_READY \cup {t}
    /\ Goto(t, "ws_blocked")
    /\ UNCHANGED <<SD_CARD_MOUNTED, SD_CARD_RW_MUTEX, LOGFILE, SDSPI_HANDLE, vcc, card,
                   fwdVars, rdrVars, stk, locVars, envVars, restVars>>

\* Woken by the broadcast, pthread_cond_wait re-acquires the mutex.
WsWake(t) ==
    /\ At(t, "ws_blocked")
    /\ t \notin SD_CARD_READY
    /\ CanLockSD(t)
    /\ SD_CARD_RW_MUTEX' = SD_CARD_RW_MUTEX \cup {t}
    /\ Goto(t, "ws_unlock")
    /\ UNCHANGED <<SD_CARD_MOUNTED, SD_CARD_READY, LOGFILE, SDSPI_HANDLE, vcc, card,
                   fwdVars, rdrVars, stk, locVars, envVars, restVars>>

WsUnlock(t) ==
    /\ At(t, "ws_unlock")
    /\ SD_CARD_RW_MUTEX' = SD_CARD_RW_MUTEX \ {t}
    /\ Return(t)
    /\ UNCHANGED <<SD_CARD_MOUNTED, SD_CARD_READY, LOGFILE, SDSPI_HANDLE, vcc, card,
                   fwdVars, rdrVars, locVars, envVars, restVars>>

\* ---- write_sd(data, n): wbuf[t] = n units, tagged with the writer
Unit(t, k) == [w |-> t, k |-> k, n |-> wbuf[t],
               b |-> IF t = ING /\ wbuf[t] = 1 THEN read_char ELSE 0]

WrLock(t) ==
    /\ At(t, "wr_lock")
    /\ CanLockSD(t)
    /\ SD_CARD_RW_MUTEX' = SD_CARD_RW_MUTEX \cup {t}
    /\ widx' = [widx EXCEPT ![t] = 0]
    /\ Goto(t, "wr_fwrite")
    /\ UNCHANGED <<SD_CARD_MOUNTED, SD_CARD_READY, LOGFILE, SDSPI_HANDLE, vcc, card,
                   fwdVars, rdrVars, stk, ret, fresult, wbuf, hw, out, rc, read_char,
                   envVars, restVars>>

\* f_write(&LOGFILE, data, n, &bytes_written): an invalid (closed) file object or
\* a disk fault gives an error and writes nothing; otherwise the units are
\* appended one after the other.
FWrite(t) ==
    /\ At(t, "wr_fwrite")
    /\ \E ok \in BOOLEAN :
         IF widx[t] = 0 /\ (~LOGFILE \/ ~ok)
         THEN /\ fresult' = [fresult EXCEPT ![t] = 1]
              /\ Goto(t, "wr_unlock")
              /\ UNCHANGED <<card, widx, fsize>>
         ELSE /\ ok
              /\ card' = Append(card, Unit(t, widx[t] + 1))
              /\ fsize' = fsize + 1
              /\ widx' = [widx EXCEPT ![t] = @ + 1]
              /\ fresult' = [fresult EXCEPT ![t] = 0]
              /\ IF widx[t] + 1 = wbuf[t] THEN Goto(t, "wr_unlock") ELSE UNCHANGED pc
    /\ UNCHANGED <<SD_CARD_MOUNTED, SD_CARD_RW_MUTEX, SD_CARD_READY, LOGFILE,
                   SDSPI_HANDLE, vcc, fwdVars, rdrVars, stk, ret, wbuf, hw, out, rc,
                   read_char, envVars, cliVars, rttVars, hcVars, initVars>>

\* unlock; return fresult ? -1 : bytes_written
WrUnlock(t) ==
    /\ At(t, "wr_unlock")
    /\ SD_CARD_RW_MUTEX' = SD_CARD_RW_MUTEX \ {t}
    /\ ret' = [ret EXCEPT ![t] = IF fresult[t] # 0 THEN -1 ELSE widx[t]]
    /\ widx' = [widx EXCEPT ![t] = 0]
    /\ fresult' = [fresult EXCEPT ![t] = 0]
    /\ Return(t)
    /\ UNCHANGED <<SD_CARD_MOUNTED, SD_CARD_READY, LOGFILE, SDSPI_HANDLE, vcc, card,
                   fwdVars, rdrVars, wbuf, hw, out, rc, read_char, envVars, restVars>>

\* ---- write_timestamp: write_sd(buf, num_chars) == num_chars ? 0 : -1
WtCall(t) ==
    /\ At(t, "wt_call")
    /\ wbuf' = [wbuf EXCEPT ![t] = BufLen]
    /\ Call(t, "wr_lock", "wt_ret")
    /\ UNCHANGED <<sdVars, fwdVars, rdrVars, ret, fresult, widx, hw, out, rc, read_char,
                   envVars, restVars>>

WtRet(t) ==
    /\ At(t, "wt_ret")
    /\ ret' = [ret EXCEPT ![t] = IF ret[t] = wbuf[t] THEN 0 ELSE -1]
    /\ Return(t)
    /\ UNCHANGED <<sdVars, fwdVars, rdrVars, fresult, widx, wbuf, hw, out, rc, read_char,
                   envVars, restVars>>

SdStep(t) ==
    \/ AmLock(t) \/ AmCheck(t) \/ AmProbe(t) \/ AmFinish(t) \/ AmUnlock(t)
    \/ AmEarlyUnlock(t) \/ AmEarlyRet(t)
    \/ UmLock(t) \/ UmBody(t) \/ UmUnlock(t)
    \/ WsLock(t) \/ WsWake(t) \/ WsUnlock(t)
    \/ WrLock(t) \/ FWrite(t) \/ WrUnlock(t)
    \/ WtCall(t) \/ WtRet(t)

\* ===================================================== uart_logger.c
\* ---- uart_logger_task_entry
IBoot(t) ==
    /\ At(t, "i_boot")
    /\ Call(t, "am_lock", "i_boot_ret")
    /\ UNCHANGED <<sdVars, fwdVars, rdrVars, locVars, envVars, restVars>>

\* if (!attempt_sd_mount()) wait_sd_ready();
IBootRet(t) ==
    /\ At(t, "i_boot_ret")
    /\ IF ret[t] = 0
       THEN Call(t, "ws_lock", "i_bootmsg")
       ELSE Goto(t, "i_bootmsg") /\ UNCHANGED stk
    /\ hw' = [hw EXCEPT ![t] = <<>>]
    /\ UNCHANGED <<sdVars, fwdVars, rdrVars, ret, fresult, widx, wbuf, out, rc, read_char, envVars, restVars>>

IBootMsg(t) ==
    /\ At(t, "i_bootmsg")
    /\ wbuf' = [wbuf EXCEPT ![t] = BufLen]
    /\ Call(t, "wr_lock", "i_bootmsg_ret")
    /\ UNCHANGED <<sdVars, fwdVars, rdrVars, ret, fresult, widx, hw, out, rc, read_char,
                   envVars, restVars>>

\* A failed write_sd or write_timestamp ends in System_abort.
IAbortUnless(t, here, good, next) ==
    /\ At(t, here)
    /\ IF good
       THEN Goto(t, next) /\ UNCHANGED aborted
       ELSE aborted' = TRUE /\ UNCHANGED pc
    /\ UNCHANGED <<sdVars, fwdVars, rdrVars, stk, locVars, nread, ncmd, restVars>>

IBootMsgRet(t) == IAbortUnless(t, "i_bootmsg_ret", ret[t] = wbuf[t], "i_ts")

ITimestamp(t) ==
    /\ At(t, "i_ts")
    /\ Call(t, "wt_call", "i_ts_ret")
    /\ UNCHANGED <<sdVars, fwdVars, rdrVars, locVars, envVars, restVars>>

ITimestampRet(t) == IAbortUnless(t, "i_ts_ret", ret[t] = 0, "i_read")

\* UART_read(uart, &read_char, 1) blocks until the line delivers a byte.
IReadUpTo(t, bound) ==
    /\ At(t, "i_read")
    /\ nread < bound
    /\ nread' = nread + 1
    /\ read_char' = nread + 1
    /\ Goto(t, "i_chk")
    /\ UNCHANGED <<sdVars, fwdVars, rdrVars, stk, ret, fresult, widx, wbuf, hw, out, rc,
                   ncmd, aborted, restVars>>

IRead(t) == IReadUpTo(t, MaxReads)

\* if (sd_card_mounted()) write_sd(&read_char, 1) else break to wait_sd_ready()
ICheck(t) ==
    /\ At(t, "i_chk")
    /\ CanLockSD(t)
    /\ IF SdCardMounted(t)
       THEN wbuf' = [wbuf EXCEPT ![t] = 1] /\ Call(t, "wr_lock", "i_wr_ret")
       ELSE Call(t, "ws_lock", "i_ts") /\ UNCHANGED wbuf
    /\ UNCHANGED <<sdVars, fwdVars, rdrVars, ret, fresult, widx, hw, out, rc, read_char, envVars, restVars>>

IWriteRet(t) == IAbortUnless(t, "i_wr_ret", ret[t] = 1, "i_fwd_lock")

\* pthread_mutex_lock(&LOG_VAR_MUTEX)
CanLockVar(t) == LOG_VAR_MUTEX = {}

IFwdLock(t) ==
    /\ At(t, "i_fwd_lock")
    /\ CanLockVar(t)
    /\ LOG_VAR_MUTEX' = LOG_VAR_MUTEX \cup {t}
    /\ Goto(t, "i_fwd")
    /\ UNCHANGED <<sdVars, LOG_FORWARD_MUTEX, FORWARD_UART_LOGS, CONTEXT, cliOut, rdrVars, stk,
                   locVars, envVars, restVars>>

\* if (FORWARD_UART_LOGS) CONTEXT->cli_write(&read_char, 1);
IFwd(t) ==
    /\ At(t, "i_fwd")
    /\ cliOut' = IF FORWARD_UART_LOGS
                 THEN Append(cliOut, <<CONTEXT, read_char>>)
                 ELSE cliOut
    /\ Goto(t, "i_fwd_unlock")
    /\ UNCHANGED <<sdVars, LOG_FORWARD_MUTEX, LOG_VAR_MUTEX, FORWARD_UART_LOGS, CONTEXT,
                   rdrVars, stk, locVars, envVars, restVars>>

IFwdUnlock(t) ==
    /\ At(t, "i_fwd_unlock")
    /\ LOG_VAR_MUTEX' = LOG_VAR_MUTEX \ {t}
    /\ Goto(t, "i_read")
    /\ UNCHANGED <<sdVars, LOG_FORWARD_MUTEX, FORWARD_UART_LOGS, CONTEXT, cliOut, rdrVars, stk,
                   locVars, envVars, restVars>>

IngStep(t) ==
    \/ IBoot(t) \/ IBootRet(t) \/ IBootMsg(t) \/ IBootMsgRet(t)
    \/ ITimestamp(t) \/ ITimestampRet(t) \/ IRead(t) \/ ICheck(t) \/ IWriteRet(t)
    \/ IFwdLock(t) \/ IFwd(t) \/ IFwdUnlock(t)

\* ---- enable_log_forwarding(context)
\* pthread_mutex_trylock(&LOG_FORWARD_MUTEX) == 0 iff no task holds the mutex
\* (the mutex is not recursive: the holder's own second trylock fails too).
\* Faulty variant: a trylock that never fails.
TryLockFwd_always(t) == TRUE
TryLockFwd(t) == LOG_FORWARD_MUTEX = {}

ETryLock(t) ==
    /\ At(t, "e_trylock")
    /\ IF TryLockFwd(t)
       THEN /\ LOG_FORWARD_MUTEX' = LOG_FORWARD_MUTEX \cup {t}
            /\ Goto(t, "e_varlock")
            /\ UNCHANGED ret
       ELSE /\ ret' = [ret EXCEPT ![t] = -1]
            /\ Goto(t, "e_return")
            /\ UNCHANGED LOG_FORWARD_MUTEX
    /\ UNCHANGED <<sdVars, LOG_VAR_MUTEX, FORWARD_UART_LOGS, CONTEXT, cliOut, rdrVars, stk,
                   fresult, widx, wbuf, hw, out, rc, read_char, envVars, restVars>>

EVarLock(t) ==
    /\ At(t, "e_varlock")
    /\ CanLockVar(t)
    /\ LOG_VAR_MUTEX' = LOG_VAR_MUTEX \cup {t}
    /\ Goto(t, "e_set")
    /\ UNCHANGED <<sdVars, LOG_FORWARD_MUTEX, FORWARD_UART_LOGS, CONTEXT, cliOut, rdrVars, stk,
                   locVars, envVars, restVars>>

\* Faulty variant: enable_log_forwarding setting the flag and not the context.
ESet_flagonly(t) ==
    /\ At(t, "e_set")
    /\ FORWARD_UART_LOGS' = TRUE
    /\ Goto(t, "e_unlock")
    /\ UNCHANGED <<sdVars, LOG_FORWARD_MUTEX, LOG_VAR_MUTEX, CONTEXT, cliOut, rdrVars, stk, locVars, envVars, restVars>>

ESet(t) ==
    /\ At(t, "e_set")
    /\ FORWARD_UART_LOGS' = TRUE
    /\ CONTEXT' = t
    /\ Goto(t, "e_unlock")
    /\ UNCHANGED <<sdVars, LOG_FORWARD_MUTEX, LOG_VAR_MUTEX, cliOut, rdrVars, stk, locVars, envVars, restVars>>

\* Faulty variant: enable_log_forwarding returning with LOG_VAR_MUTEX still held.
EUnlock_forgot(t) ==
    /\ At(t, "e_unlock")
    /\ ret' = [ret EXCEPT ![t] = 0]
    /\ Goto(t, "e_return")
    /\ UNCHANGED <<sdVars, fwdVars, rdrVars, stk,
                   fresult, widx, wbuf, hw, out, rc, read_char, envVars, restVars>>

EUnlock(t) ==
    /\ At(t, "e_unlock")
    /\ LOG_VAR_MUTEX' = LOG_VAR_MUTEX \ {t}
    /\ ret' = [ret EXCEPT ![t] = 0]
    /\ Goto(t, "e_return")
    /\ UNCHANGED <<sdVars, LOG_FORWARD_MUTEX, FORWARD_UART_LOGS, CONTEXT, cliOut, rdrVars, stk,
                   fresult, widx, wbuf, hw, out, rc, read_char, envVars, restVars>>

EReturn(t) ==
    /\ At(t, "e_return")
    /\ Return(t)
    /\ UNCHANGED <<sdVars, fwdVars, rdrVars, locVars, envVars, restVars>>

\* ---- disable_log_forwarding()
DVarLock(t) ==
    /\ At(t, "d_varlock")
    /\ CanLockVar(t)
    /\ LOG_VAR_MUTEX' = LOG_VAR_MUTEX \cup {t}
    /\ Goto(t, "d_unlockfwd")
    /\ UNCHANGED <<sdVars, LOG_FORWARD_MUTEX, FORWARD_UART_LOGS, CONTEXT, cliOut, rdrVars, stk,
                   locVars, envVars, restVars>>

\* pthread_mutex_unlock(&LOG_FORWARD_MUTEX) == 0 iff the caller holds the mutex:
\* "If this fails, the calling thread doesn't have log forwarding running".
\* Faulty variants: any task may unlock a held mutex; unlocking a free mutex succeeds.
UnlockFwdOk_anyone(t) == LOG_FORWARD_MUTEX # {}
UnlockFwdOk_unowned(t) == t \in LOG_FORWARD_MUTEX \/ LOG_FORWARD_MUTEX = {}
UnlockFwdOk(t) == t \in LOG_FORWARD_MUTEX

DUnlockFwd(t) ==
    /\ At(t, "d_unlockfwd")
    /\ IF UnlockFwdOk(t)
       THEN /\ LOG_FORWARD_MUTEX' = LOG_FORWARD_MUTEX \ {t}
            /\ Goto(t, "d_reset")
       ELSE /\ Goto(t, "d_fail")
            /\ UNCHANGED LOG_FORWARD_MUTEX
    /\ UNCHANGED <<sdVars, LOG_VAR_MUTEX, FORWARD_UART_LOGS, CONTEXT, cliOut, rdrVars, stk,
                   locVars, envVars, restVars>>

DReset(t) ==
    /\ At(t, "d_reset")
    /\ FORWARD_UART_LOGS' = FALSE
    /\ CONTEXT' = NULL
    /\ Goto(t, "d_unlock")
    /\ UNCHANGED <<sdVars, LOG_FORWARD_MUTEX, LOG_VAR_MUTEX, cliOut, rdrVars, stk, locVars, envVars, restVars>>

DUnlock(t) ==
    /\ At(t, "d_unlock")
    /\ LOG_VAR_MUTEX' = LOG_VAR_MUTEX \ {t}
    /\ ret' = [ret EXCEPT ![t] = 0]
    /\ Goto(t, "d_return")
    /\ UNCHANGED <<sdVars, LOG_FORWARD_MUTEX, FORWARD_UART_LOGS, CONTEXT, cliOut, rdrVars, stk,
                   fresult, widx, wbuf, hw, out, rc, read_char, envVars, restVars>>

\* Not the holder: drop LOG_VAR_MUTEX, return -1.
DFail(t) ==
    /\ At(t, "d_fail")
    /\ LOG_VAR_MUTEX' = LOG_VAR_MUTEX \ {t}
    /\ ret' = [ret EXCEPT ![t] = -1]
    /\ Goto(t, "d_return")
    /\ UNCHANGED <<sdVars, LOG_FORWARD_MUTEX, FORWARD_UART_LOGS, CONTEXT, cliOut, rdrVars, stk,
                   fresult, widx, wbuf, hw, out, rc, read_char, envVars, restVars>>

DReturn(t) ==
    /\ At(t, "d_return")
    /\ Return(t)
    /\ UNCHANGED <<sdVars, fwdVars, rdrVars, locVars, envVars, restVars>>

FwdStep(t) ==
    \/ ETryLock(t) \/ EVarLock(t) \/ ESet(t) \/ EUnlock(t) \/ EReturn(t)
    \/ DVarLock(t) \/ DUnlockFwd(t) \/ DReset(t) \/ DUnlock(t) \/ DFail(t) \/ DReturn(t)

\* ===================================================== commands.c
SdCmds == {"mount", "unmount", "write_sd", "write_timestamp"}
FwdCmds == {"connect_log", "disconnect_log"}
SessionCmds == {"mount", "unmount", "sdstatus"}
RttCmds == {"rtt", "disconnect_log"}
SizeCmds == {"mount", "unmount", "filesize"}
PowerCmds == {"mount", "unmount", "sdpwr", "sdpwr on", "sdpwr off", "sdpwr x"}
Entry(c) == CASE c = "mount" -> "m_chk"
              [] c = "unmount" -> "u_chk"
              [] c = "write_sd" -> "w_chk"
              [] c = "write_timestamp" -> "t_call"
              [] c = "connect_log" -> "cl_call"
              [] c = "disconnect_log" -> "dl_call"
              [] c = "sdstatus" -> "s_chk"
              [] c = "rtt" -> "rt_call"
              [] c = "filesize" -> "fz_chk"
              [] c = "sdpwr" -> "pw_argc"
              [] c = "sdpwr on" -> "pw_on"
              [] c = "sdpwr off" -> "pw_off"
              [] c = "sdpwr x" -> "pw_bad"

\* start_cli reads a line and handle_command dispatches it to its handler.
HandleCommandUpTo(t, cmds, bound) ==
    /\ At(t, "idle")
    /\ ncmd < bound
    /\ \E c \in cmds : Goto(t, Entry(c))
    /\ ncmd' = ncmd + 1
    /\ out' = [out EXCEPT ![t] = ""]
    /\ rc' = [rc EXCEPT ![t] = 0]
    /\ ret' = [ret EXCEPT ![t] = 0]
    /\ UNCHANGED <<sdVars, fwdVars, rdrVars, stk, fresult, widx, wbuf, hw, read_char, nread, aborted, restVars>>

HandleCommand(t, cmds) == HandleCommandUpTo(t, cmds, MaxCmds)

\* The handler returns: its message was printed, its status is rc, and
\* start_cli prompts for the next line.
Finish(t, msg, code) ==
    /\ out' = [out EXCEPT ![t] = msg]
    /\ rc' = [rc EXCEPT ![t] = code]
    /\ Goto(t, "idle")

\* ---- mount
MountChk(t) ==
    /\ At(t, "m_chk")
    /\ CanLockSD(t)
    /\ IF SdCardMounted(t)
       THEN Finish(t, "SD card is already mounted", 0) /\ UNCHANGED stk
       ELSE Call(t, "am_lock", "m_ret") /\ UNCHANGED <<out, rc>>
    /\ UNCHANGED <<sdVars, fwdVars, rdrVars, ret, fresult, widx, wbuf, hw, read_char, envVars, restVars>>

\* Faulty variant: mount that reports success whatever attempt_sd_mount returned.
MountRet_always(t) ==
    /\ At(t, "m_ret")
    /\ Finish(t, "Success", 0)
    /\ hw' = [hw EXCEPT ![t] = <<>>]
    /\ UNCHANGED <<sdVars, fwdVars, rdrVars, stk, ret, fresult, widx, wbuf, read_char, envVars, restVars>>

MountRet(t) ==
    /\ At(t, "m_ret")
    /\ IF ret[t] # 0 THEN Finish(t, "Success", 0) ELSE Finish(t, "Failed", 255)
    /\ hw' = [hw EXCEPT ![t] = <<>>]
    /\ UNCHANGED <<sdVars, fwdVars, rdrVars, stk, ret, fresult, widx, wbuf, read_char, envVars, restVars>>

\* ---- unmount
UnmountChk(t) ==
    /\ At(t, "u_chk")
    /\ CanLockSD(t)
    /\ IF ~SdCardMounted(t)
       THEN Finish(t, "SD card is not mounted", 0) /\ UNCHANGED stk
       ELSE Call(t, "um_lock", "u_ret") /\ UNCHANGED <<out, rc>>
    /\ UNCHANGED <<sdVars, fwdVars, rdrVars, ret, fresult, widx, wbuf, hw, read_char, envVars, restVars>>

UnmountRet(t) ==
    /\ At(t, "u_ret")
    /\ Finish(t, "SD card unmounted", 0)
    /\ UNCHANGED <<sdVars, fwdVars, rdrVars, stk, ret, fresult, widx, wbuf, hw,
                   read_char, envVars, restVars>>

\* ---- sdstatus
\* "SD card is %s", sd_card_mounted() ? "mounted" : "unmounted";
\* "SD card power: %s", GPIO_read(Board_SDCARD_VCC) ? "on" : "off"
StatusText(mounted, power) ==
    CASE mounted /\ power -> "SD card is mounted, SD card power: on"
      [] mounted /\ ~power -> "SD card is mounted, SD card power: off"
      [] ~mounted /\ power -> "SD card is unmounted, SD card power: on"
      [] OTHER -> "SD card is unmounted, SD card power: off"

StatusChk(t) ==
    /\ At(t, "s_chk")
    /\ CanLockSD(t)
    /\ Finish(t, StatusText(SdCardMounted(t), vcc), 0)
    /\ UNCHANGED <<sdVars, fwdVars, rdrVars, stk, ret, fresult, widx, wbuf, hw,
                   read_char, envVars, restVars>>

\* ---- filesize
\* sd_card.c filesize(): lock, f_size(&LOGFILE), unlock.  f_size is the ff.h
\* macro that reads the fsize field of the FIL object; it does not look at
\* whether the object is open.
filesize(t) == fsize

\* logfile_size prints the value and returns 0.
FilesizeChk(t) ==
    /\ At(t, "fz_chk")
    /\ CanLockSD(t)
    /\ ret' = [ret EXCEPT ![t] = filesize(t)]
    /\ Finish(t, "SD card file size is: %d", 0)
    /\ UNCHANGED <<sdVars, fwdVars, rdrVars, stk, fresult, widx, wbuf, hw,
                   read_char, envVars, restVars>>

\* ---- sdpwr {on|off}
\* argc != 2 and an argument that is neither "on" nor "off" return 255;
\* otherwise GPIO_write(Board_SDCARD_VCC, ...) with no lock taken.
Sdpwr(t) ==
    /\ ~aborted
    /\ pc[t] \in {"pw_argc", "pw_on", "pw_off", "pw_bad"}
    /\ CASE pc[t] = "pw_argc" ->
              Finish(t, "Unsupported number of arguments", 255) /\ UNCHANGED vcc
         [] pc[t] = "pw_on" ->
              Finish(t, "SD card power on", 0) /\ vcc' = TRUE
         [] pc[t] = "pw_off" ->
              Finish(t, "SD card power off", 0) /\ vcc' = FALSE
         [] OTHER ->
              Finish(t, "Unknown argument %s", 255) /\ UNCHANGED vcc
    /\ UNCHANGED <<SD_CARD_MOUNTED, SD_CARD_RW_MUTEX, SD_CARD_READY, LOGFILE,
                   SDSPI_HANDLE, card, fwdVars, rdrVars, stk, ret, fresult, widx, wbuf,
                   hw, read_char, envVars, restVars>>

\* ---- write_sd <text>
SdWriteChk(t) ==
    /\ At(t, "w_chk")
    /\ CanLockSD(t)
    /\ IF ~SdCardMounted(t)
       THEN Finish(t, "Cannot write to SD card, not mounted", 255) /\ UNCHANGED <<stk, wbuf>>
       ELSE /\ wbuf' = [wbuf EXCEPT ![t] = BufLen]
            /\ Call(t, "wr_lock", "w_ret")
            /\ UNCHANGED <<out, rc>>
    /\ UNCHANGED <<sdVars, fwdVars, rdrVars, ret, fresult, widx, hw, read_char, envVars, restVars>>

SdWriteRet(t) ==
    /\ At(t, "w_ret")
    /\ IF ret[t] # wbuf[t] THEN Finish(t, "Write error!", 255) ELSE Finish(t, "", 0)
    /\ UNCHANGED <<sdVars, fwdVars, rdrVars, stk, ret, fresult, widx, wbuf, hw,
                   read_char, envVars, restVars>>

\* ---- write_timestamp
WriteTsCall(t) ==
    /\ At(t, "t_call")
    /\ Call(t, "wt_call", "t_ret")
    /\ UNCHANGED <<sdVars, fwdVars, rdrVars, locVars, envVars, restVars>>

WriteTsRet(t) ==
    /\ At(t, "t_ret")
    /\ IF ret[t] # 0
       THEN Finish(t, "SD card write write error: could not write timestamp", 255)
       ELSE Finish(t, "", 0)
    /\ UNCHANGED <<sdVars, fwdVars, rdrVars, stk, ret, fresult, widx, wbuf, hw,
                   read_char, envVars, restVars>>

\* ---- connect_log
ConnectLogCall(t) ==
    /\ At(t, "cl_call")
    /\ Call(t, "e_trylock", "cl_ret")
    /\ UNCHANGED <<sdVars, fwdVars, rdrVars, locVars, envVars, restVars>>

ConnectLogRet(t) ==
    /\ At(t, "cl_ret")
    /\ IF ret[t] # 0
       THEN Finish(t, "Could not enable log forwarding", 255)
       ELSE Finish(t, "", 0)
    /\ UNCHANGED <<sdVars, fwdVars, rdrVars, stk, ret, fresult, widx, wbuf, hw,
                   read_char, envVars, restVars>>

\* ---- disconnect_log
DisconnectLogCall(t) ==
    /\ At(t, "dl_call")
    /\ Call(t, "d_varlock", "dl_ret")
    /\ UNCHANGED <<sdVars, fwdVars, rdrVars, locVars, envVars, restVars>>

DisconnectLogRet(t) ==
    /\ At(t, "dl_ret")
    /\ IF ret[t] # 0
       THEN Finish(t, "Could not disable log forwarding from this terminal", 255)
       ELSE Finish(t, "", 0)
    /\ UNCHANGED <<sdVars, fwdVars, rdrVars, stk, ret, fresult, widx, wbuf, hw,
                   read_char, envVars, restVars>>

\* ---- handle_command(ctx, cmd)
MAX_ARGC == 8
NullPtr == -1
COMMANDS ==
    << <<"h", "e", "l", "p">>,
       <<"m", "o", "u", "n", "t">>,
       <<"u", "n", "m", "o", "u", "n", "t">>,
       <<"s", "d", "s", "t", "a", "t", "u", "s">>,
       <<"s", "d", "p", "w", "r">>,
       <<"w", "r", "i", "t", "e", "_", "s", "d">>,
       <<"f", "i", "l", "e", "s", "i", "z", "e">>,
       <<"w", "r", "i", "t", "e", "_", "t", "i", "m", "e", "s", "t", "a", "m", "p">>,
       <<"c", "o", "n", "n", "e", "c", "t", "_", "l", "o", "g">>,
       <<"d", "i", "s", "c", "o", "n", "n", "e", "c", "t", "_", "l", "o", "g">>,
       <<"r", "t", "t">> >>

\* strncpy(cmd_buf, cmd, cap) into char cmd_buf[cap + 1]: the string, padded
\* with NUL up to cap bytes; the last byte of cmd_buf is never written.
Strncpy(str, cap) ==
    [i \in 0..cap |-> IF i < cap
                      THEN (IF i < Len(str) THEN str[i + 1] ELSE NUL)
                      ELSE JUNK]

RECURSIVE SkipDelim(_, _)
SkipDelim(buf, i) == IF buf[i] = SP THEN SkipDelim(buf, i + 1) ELSE i

RECURSIVE TokEnd(_, _)
TokEnd(buf, i) == IF buf[i] \in {SP, NUL} THEN i ELSE TokEnd(buf, i + 1)

\* strtok_r(str, " ", &saveptr) continuing at save: skip delimiters; at the end
\* of the string return NULL; else end the token at the next delimiter by
\* writing NUL over it and return the token's address.
strtok_r(buf, save) ==
    LET s == SkipDelim(buf, save)
        e == TokEnd(buf, s)
    IN  IF buf[s] = NUL THEN [tok |-> NullPtr, buf |-> buf, save |-> s]
        ELSE IF buf[e] = NUL THEN [tok |-> s, buf |-> buf, save |-> e]
        ELSE [tok |-> s, buf |-> [buf EXCEPT ![e] = NUL], save |-> e + 1]

\* Faulty variant: the argument loop without its argc < MAX_ARGC bound.
RECURSIVE ParseRest_unbounded(_, _, _)
ParseRest_unbounded(st, arguments, argc) ==
    LET r == strtok_r(st.buf, st.save)
    IN  IF r.tok = NullPtr
        THEN [arguments |-> Append(arguments, NullPtr), argc |-> argc, buf |-> r.buf]
        ELSE ParseRest_unbounded(r, Append(arguments, r.tok), argc + 1)

\* for (argc = 1; argc < MAX_ARGC; argc++) {
\*     arguments[argc] = strtok_r(NULL, " ", &saveptr);
\*     if (arguments[argc] == NULL) break; }
\* arguments is kept as a sequence: arguments[k + 1] is the C arguments[k].
RECURSIVE ParseRest(_, _, _)
ParseRest(st, arguments, argc) ==
    IF argc >= MAX_ARGC
    THEN [arguments |-> arguments, argc |-> argc, buf |-> st.buf]
    ELSE LET r == strtok_r(st.buf, st.save)
         IN  IF r.tok = NullPtr
             THEN [arguments |-> Append(arguments, NullPtr), argc |-> argc, buf |-> r.buf]
             ELSE ParseRest(r, Append(arguments, r.tok), argc + 1)

\* arguments[0] = strtok_r(cmd_buf, " ", &saveptr); then the loop
ParseArgs(cmd_buf) ==
    LET first == strtok_r(cmd_buf, 0)
    IN  ParseRest(first, <<first.tok>>, 1)

\* the C string at address p of buf
RECURSIVE StrAt(_, _)
StrAt(buf, p) == IF buf[p] = NUL THEN <<>> ELSE <<buf[p]>> \o StrAt(buf, p + 1)

UnknownCommand == "Warning: unknown command. Try \"help\". "

\* the walk over COMMANDS: strncmp(entry->cmd_name, arguments[0], cap) == 0
Matches(name, cap) ==
    {k \in 1..Len(COMMANDS) :
        SubSeq(COMMANDS[k], 1, IF Len(COMMANDS[k]) < cap THEN Len(COMMANDS[k]) ELSE cap)
          = SubSeq(name, 1, IF Len(name) < cap THEN Len(name) ELSE cap)}

\* handle_command(ctx, line) with line capacity cap.  With no token on the
\* line arguments[0] is NULL and strncmp reads through the null pointer: the
\* read faults, or it returns bytes that match no command name.
handle_command(line, cap) ==
    /\ hc_pc = "idle"
    /\ hc_cmd' = line
    /\ LET p == ParseArgs(Strncpy(line, cap))
           name == StrAt(p.buf, p.arguments[1])
       IN  IF p.arguments[1] = NullPtr
           THEN \E fault \in BOOLEAN :
                  /\ hc_pc' = IF fault THEN "fault" ELSE "returned"
                  /\ hc_out' = IF fault THEN "" ELSE UnknownCommand
                  /\ hc_entry' = NoEntry /\ hc_argv' = <<>> /\ hc_argc' = p.argc
                  /\ hc_ret' = 0
           ELSE IF Matches(name, cap) # {}
           THEN LET k == CHOOSE m \in Matches(name, cap) :
                            \A o \in Matches(name, cap) : m <= o
                IN  /\ hc_entry' = COMMANDS[k]
                    /\ hc_argc' = p.argc
                    /\ hc_argv' = [j \in 1..p.argc |-> StrAt(p.buf, p.arguments[j])]
                    /\ hc_out' = ""
                    /\ \E r \in {0, 255} : hc_ret' = r
                    /\ hc_pc' = "returned"
           ELSE /\ hc_entry' = NoEntry /\ hc_argv' = <<>> /\ hc_argc' = p.argc
                /\ hc_out' = UnknownCommand
                /\ hc_ret' = 0
                /\ hc_pc' = "returned"
    /\ UNCHANGED <<sdVars, fwdVars, rdrVars, pc, stk, locVars, envVars, cliVars, rttVars,
                   filVars, initVars>>

\* ---- rtt (realtime_terminal)
CTRL_E == 5
RttBytes == {1, 2, CTRL_E}

\* if (enable_log_forwarding(ctx) != 0)
RttCall(t) ==
    /\ At(t, "rt_call")
    /\ Call(t, "e_trylock", "rt_ret")
    /\ rtt_in' = [rtt_in EXCEPT ![t] = <<>>]
    /\ UNCHANGED <<sdVars, fwdVars, rdrVars, locVars, envVars, cliVars, hcVars, filVars,
                   initVars, uartTx>>

\* Faulty variant: rtt that starts the terminal whatever enable_log_forwarding returned.
RttRet_always(t) ==
    /\ At(t, "rt_ret")
    /\ out' = [out EXCEPT ![t] = "Starting real time terminal, press CTRL+E to exit"]
    /\ Goto(t, "rt_read")
    /\ UNCHANGED <<sdVars, fwdVars, rdrVars, stk, ret, fresult, widx, wbuf, hw, rc,
                   read_char, envVars, restVars>>

RttRet(t) ==
    /\ At(t, "rt_ret")
    /\ IF ret[t] # 0
       THEN Finish(t, "Could not start terminal, another console is using log forwarding",
                   255)
       ELSE /\ out' = [out EXCEPT ![t] = "Starting real time terminal, press CTRL+E to exit"]
            /\ Goto(t, "rt_read")
            /\ UNCHANGED rc
    /\ UNCHANGED <<sdVars, fwdVars, rdrVars, stk, ret, fresult, widx, wbuf, hw,
                   read_char, envVars, restVars>>

\* ctx->cli_read(&input, 1); if (input == 5) break; write_to_logger(&input, 1);
\* after the loop: disable_log_forwarding()
RttRead(t) ==
    /\ At(t, "rt_read")
    /\ Len(rtt_in[t]) < MaxRttIn
    /\ \E input \in RttBytes :
        /\ rtt_in' = [rtt_in EXCEPT ![t] = Append(@, input)]
        /\ IF input = CTRL_E
           THEN Call(t, "d_varlock", "rt_dis_ret") /\ UNCHANGED uartTx
           ELSE uartTx' = Append(uartTx, <<t, input>>) /\ UNCHANGED <<pc, stk>>
    /\ UNCHANGED <<sdVars, fwdVars, rdrVars, locVars, envVars, cliVars, hcVars, filVars,
                   initVars>>

RttDisRet(t) ==
    /\ At(t, "rt_dis_ret")
    /\ IF ret[t] # 0
       THEN Finish(t, "Error, could not disable log forwarding. This should not occur", 255)
       ELSE Finish(t, "", 0)
    /\ UNCHANGED <<sdVars, fwdVars, rdrVars, stk, ret, fresult, widx, wbuf, hw,
                   read_char, envVars, restVars>>

RttStep(t) == RttCall(t) \/ RttRet(t) \/ RttRead(t) \/ RttDisRet(t)

SdCmdStep(t) ==
    \/ MountChk(t) \/ MountRet(t) \/ UnmountChk(t) \/ UnmountRet(t)
    \/ SdWriteChk(t) \/ SdWriteRet(t) \/ WriteTsCall(t) \/ WriteTsRet(t)

FwdCmdStep(t) ==
    \/ ConnectLogCall(t) \/ ConnectLogRet(t)
    \/ DisconnectLogCall(t) \/ DisconnectLogRet(t)

\* ===================================================== uart_logger_task.c (queue forwarding)
\* The logger of the relay-task build: no start text, no timestamp; a byte
\* written to the card is put on uart_log_queue while FORWARD_UART_LOGS is set.
QBoot(t) ==
    /\ At(t, "q_boot")
    /\ Call(t, "am_lock", "q_boot_ret")
    /\ UNCHANGED <<sdVars, fwdVars, rdrVars, locVars, envVars, restVars>>

QBootRet(t) ==
    /\ At(t, "q_boot_ret")
    /\ IF ret[t] = 0
       THEN Call(t, "ws_lock", "q_read")
       ELSE Goto(t, "q_read") /\ UNCHANGED stk
    /\ hw' = [hw EXCEPT ![t] = <<>>]
    /\ UNCHANGED <<sdVars, fwdVars, rdrVars, ret, fresult, widx, wbuf, out, rc,
                   read_char, envVars, restVars>>

QReadUpTo(t, bound) ==
    /\ At(t, "q_read")
    /\ nread < bound
    /\ nread' = nread + 1
    /\ read_char' = nread + 1
    /\ Goto(t, "q_chk")
    /\ UNCHANGED <<sdVars, fwdVars, rdrVars, stk, ret, fresult, widx, wbuf, hw, out, rc,
                   ncmd, aborted, restVars>>

QRead(t) == QReadUpTo(t, MaxReads)

QCheck(t) ==
    /\ At(t, "q_chk")
    /\ CanLockSD(t)
    /\ IF SdCardMounted(t)
       THEN wbuf' = [wbuf EXCEPT ![t] = 1] /\ Call(t, "wr_lock", "q_wr_ret")
       ELSE Call(t, "ws_lock", "q_read") /\ UNCHANGED wbuf
    /\ UNCHANGED <<sdVars, fwdVars, rdrVars, ret, fresult, widx, hw, out, rc,
                   read_char, envVars, restVars>>

QWriteRet(t) ==
    /\ At(t, "q_wr_ret")
    /\ IF ret[t] = 1
       THEN Goto(t, "q_enq") /\ UNCHANGED aborted
       ELSE aborted' = TRUE /\ UNCHANGED pc
    /\ UNCHANGED <<sdVars, fwdVars, rdrVars, stk, locVars, nread, ncmd, restVars>>

\* if (FORWARD_UART_LOGS) { queue_elements[queue_idx].data = read_char;
\*   Queue_put(...); queue_idx++; Semaphore_post(logger_data_avail_sem);
\*   if (queue_idx >= MAX_QUEUE) queue_idx = 0; }
QEnqueue(t) ==
    /\ At(t, "q_enq")
    /\ IF FORWARD_UART_LOGS
       THEN /\ queue_elements' = [queue_elements EXCEPT ![queue_idx] = read_char]
            /\ uart_log_queue' = Queue_put(uart_log_queue, queue_idx)
            /\ queue_idx' = IF queue_idx + 1 >= MAX_QUEUE THEN 0 ELSE queue_idx + 1
            /\ logger_data_avail_sem' = logger_data_avail_sem + 1
       ELSE UNCHANGED <<uart_log_queue, queue_elements, queue_idx,
                        logger_data_avail_sem>>
    /\ Goto(t, "q_read")
    /\ UNCHANGED <<sdVars, fwdVars, LOG_READER_CTX_MUTEX, log_reader_sem,
                   shutdown_ack_sem, stk, locVars, envVars, restVars>>

\* if (logger_has_data()) dequeue_logger_data(&c): a task takes the element
\* at the head of the queue and passes its data on.
DequeueLoggerData(r) ==
    /\ At(r, "r_loop")
    /\ ~Queue_empty(uart_log_queue)
    /\ uart_log_queue' = Queue_get(uart_log_queue)
    /\ cliOut' = Append(cliOut, <<CONTEXT, queue_elements[Queue_head(uart_log_queue)]>>)
    /\ UNCHANGED <<sdVars, LOG_FORWARD_MUTEX, LOG_VAR_MUTEX, FORWARD_UART_LOGS, CONTEXT,
                   LOG_READER_CTX_MUTEX, log_reader_sem, shutdown_ack_sem,
                   queue_elements, queue_idx, logger_data_avail_sem,
                   pc, stk, locVars, envVars, restVars>>

QueueLoggerStep(t) ==
    \/ QBoot(t) \/ QBootRet(t) \/ QRead(t) \/ QCheck(t) \/ QWriteRet(t) \/ QEnqueue(t)

\* ===================================================== uart_log_reader_task.c
\* context->cli_write(...): through a NULL context the call goes through a
\* null pointer; the build either faults there or the bytes go nowhere.
CliWrite(ctx, b) ==
    IF ctx = NULL
    THEN \E fault \in BOOLEAN : aborted' = fault /\ UNCHANGED cliOut
    ELSE cliOut' = Append(cliOut, <<ctx, b>>) /\ UNCHANGED aborted

\* ---- start_log_reader(context)
CanLockReader(t) == LOG_READER_CTX_MUTEX = {}

SlLock(t) ==
    /\ At(t, "sl_lock")
    /\ CanLockReader(t)
    /\ LOG_READER_CTX_MUTEX' = LOG_READER_CTX_MUTEX \cup {t}
    /\ Goto(t, "sl_set")
    /\ UNCHANGED <<sdVars, fwdVars, log_reader_sem, shutdown_ack_sem, uart_log_queue, queue_elements, queue_idx,
                   logger_data_avail_sem, stk, locVars, envVars, restVars>>

SlSet(t) ==
    /\ At(t, "sl_set")
    /\ CONTEXT' = t
    /\ Goto(t, "sl_post")
    /\ UNCHANGED <<sdVars, LOG_FORWARD_MUTEX, LOG_VAR_MUTEX, FORWARD_UART_LOGS, cliOut,
                   rdrVars, stk, locVars, envVars, restVars>>

\* Semaphore_post(log_reader_sem), a binary semaphore; the mutex stays locked.
SlPost(t) ==
    /\ At(t, "sl_post")
    /\ log_reader_sem' = 1
    /\ Goto(t, "idle")
    /\ UNCHANGED <<sdVars, fwdVars, LOG_READER_CTX_MUTEX, shutdown_ack_sem,
                   uart_log_queue, queue_elements, queue_idx, logger_data_avail_sem, stk, locVars, envVars, restVars>>

\* ---- stop_log_reader()
\* if (CONTEXT == NULL) return 0;
StChk(t) ==
    /\ At(t, "st_chk")
    /\ IF CONTEXT = NULL
       THEN Goto(t, "idle") /\ ret' = [ret EXCEPT ![t] = 0]
       ELSE Goto(t, "st_post") /\ UNCHANGED ret
    /\ UNCHANGED <<sdVars, fwdVars, rdrVars, stk, fresult, widx, wbuf, hw, out, rc,
                   read_char, envVars, restVars>>

StPost(t) ==
    /\ At(t, "st_post")
    /\ log_reader_sem' = 1
    /\ Goto(t, "st_pend")
    /\ UNCHANGED <<sdVars, fwdVars, LOG_READER_CTX_MUTEX, shutdown_ack_sem,
                   uart_log_queue, queue_elements, queue_idx, logger_data_avail_sem, stk, locVars, envVars, restVars>>

\* Faulty variant: stop_log_reader that does not wait for the acknowledgement.
StPend_nowait(t) ==
    /\ At(t, "st_pend")
    /\ out' = [out EXCEPT ![t] = "Got handshake signal from log reader task"]
    /\ Goto(t, "st_unlock")
    /\ UNCHANGED <<sdVars, fwdVars, rdrVars, stk, ret, fresult, widx,
                   wbuf, hw, rc, read_char, envVars, restVars>>

\* Semaphore_pend(shutdown_ack_sem, BIOS_WAIT_FOREVER)
StPend(t) ==
    /\ At(t, "st_pend")
    /\ shutdown_ack_sem > 0
    /\ shutdown_ack_sem' = shutdown_ack_sem - 1
    /\ out' = [out EXCEPT ![t] = "Got handshake signal from log reader task"]
    /\ Goto(t, "st_unlock")
    /\ UNCHANGED <<sdVars, fwdVars, LOG_READER_CTX_MUTEX, log_reader_sem,
                   uart_log_queue, queue_elements, queue_idx, logger_data_avail_sem, stk, ret, fresult, widx,
                   wbuf, hw, rc, read_char, envVars, restVars>>

\* pthread_mutex_unlock(&LOG_READER_CTX_MUTEX) == 0 iff the caller holds the mutex.
UnlockReaderOk(t) == t \in LOG_READER_CTX_MUTEX

StUnlock(t) ==
    /\ At(t, "st_unlock")
    /\ IF UnlockReaderOk(t)
       THEN /\ LOG_READER_CTX_MUTEX' = LOG_READER_CTX_MUTEX \ {t}
            /\ ret' = [ret EXCEPT ![t] = 0]
            /\ Goto(t, "idle")
            /\ UNCHANGED out
       ELSE /\ out' = [out EXCEPT ![t] = "Calling thread did not own the mutex!"]
            /\ Goto(t, "st_repost")
            /\ UNCHANGED <<LOG_READER_CTX_MUTEX, ret>>
    /\ UNCHANGED <<sdVars, fwdVars, log_reader_sem, shutdown_ack_sem, uart_log_queue, queue_elements, queue_idx,
                   logger_data_avail_sem, stk, fresult, widx, wbuf, hw, rc,
                   read_char, envVars, restVars>>

\* Semaphore_post(log_reader_sem); return -1;
StRepost(t) ==
    /\ At(t, "st_repost")
    /\ log_reader_sem' = 1
    /\ ret' = [ret EXCEPT ![t] = -1]
    /\ Goto(t, "idle")
    /\ UNCHANGED <<sdVars, fwdVars, LOG_READER_CTX_MUTEX, shutdown_ack_sem,
                   uart_log_queue, queue_elements, queue_idx, logger_data_avail_sem, stk, fresult, widx, wbuf,
                   hw, out, rc, read_char, envVars, restVars>>

\* A console task calls start_log_reader(its context) or stop_log_reader().
ReaderCallUpTo(t, bound) ==
    /\ At(t, "idle")
    /\ ncmd < bound
    /\ ncmd' = ncmd + 1
    /\ \E entry \in {"sl_lock", "st_chk"} : Goto(t, entry)
    /\ out' = [out EXCEPT ![t] = ""]
    /\ ret' = [ret EXCEPT ![t] = 0]
    /\ UNCHANGED <<sdVars, fwdVars, rdrVars, stk, fresult, widx, wbuf, hw, rc,
                   read_char, nread, aborted, restVars>>

ReaderCall(t) == ReaderCallUpTo(t, MaxCmds)

ReaderApiStep(t) ==
    \/ SlLock(t) \/ SlSet(t) \/ SlPost(t)
    \/ StChk(t) \/ StPost(t) \/ StPend(t) \/ StUnlock(t) \/ StRepost(t)

\* ---- uart_log_reader_task_entry
\* Semaphore_pend(log_reader_sem, BIOS_WAIT_FOREVER)
RPend(r) ==
    /\ At(r, "r_pend")
    /\ log_reader_sem > 0
    /\ log_reader_sem' = 0
    /\ Goto(r, "r_hello")
    /\ UNCHANGED <<sdVars, fwdVars, LOG_READER_CTX_MUTEX, shutdown_ack_sem,
                   uart_log_queue, queue_elements, queue_idx, logger_data_avail_sem, stk, locVars, envVars, restVars>>

\* cli_printf(CONTEXT, "We are running the task now\r\n"): byte 0 is the banner
RHello(r) ==
    /\ At(r, "r_hello")
    /\ CliWrite(CONTEXT, 0)
    /\ Goto(r, "r_enable")
    /\ UNCHANGED <<sdVars, LOG_FORWARD_MUTEX, LOG_VAR_MUTEX, FORWARD_UART_LOGS, CONTEXT,
                   rdrVars, stk, locVars, nread, ncmd, restVars>>

\* enable_log_forwarding(): FORWARD_UART_LOGS = true
REnable(r) ==
    /\ At(r, "r_enable")
    /\ FORWARD_UART_LOGS' = TRUE
    /\ Goto(r, "r_loop")
    /\ UNCHANGED <<sdVars, LOG_FORWARD_MUTEX, LOG_VAR_MUTEX, CONTEXT, cliOut,
                   rdrVars, stk, locVars, envVars, restVars>>

\* if (logger_has_data()) { dequeue_logger_data(&c); CONTEXT->cli_write(&c, 1); }
\* else wait_logger_data(1000): takes the semaphore or times out.
RLoop(r) ==
    /\ At(r, "r_loop")
    /\ IF ~Queue_empty(uart_log_queue)
       THEN /\ uart_log_queue' = Queue_get(uart_log_queue)
            /\ CliWrite(CONTEXT, queue_elements[Queue_head(uart_log_queue)])
            /\ UNCHANGED logger_data_avail_sem
       ELSE /\ logger_data_avail_sem' =
                   IF logger_data_avail_sem > 0 THEN logger_data_avail_sem - 1 ELSE 0
            /\ UNCHANGED <<uart_log_queue, cliOut, aborted>>
    /\ Goto(r, "r_poll")
    /\ UNCHANGED <<sdVars, LOG_FORWARD_MUTEX, LOG_VAR_MUTEX, FORWARD_UART_LOGS, CONTEXT,
                   LOG_READER_CTX_MUTEX, log_reader_sem, shutdown_ack_sem,
                   queue_elements, queue_idx, stk, locVars, nread, ncmd, restVars>>

\* if (Semaphore_pend(log_reader_sem, BIOS_NO_WAIT) == TRUE) shut down
RPoll(r) ==
    /\ At(r, "r_poll")
    /\ IF log_reader_sem > 0
       THEN log_reader_sem' = 0 /\ Goto(r, "r_disable")
       ELSE UNCHANGED log_reader_sem /\ Goto(r, "r_loop")
    /\ UNCHANGED <<sdVars, fwdVars, LOG_READER_CTX_MUTEX, shutdown_ack_sem,
                   uart_log_queue, queue_elements, queue_idx, logger_data_avail_sem, stk, locVars, envVars, restVars>>

\* disable_log_forwarding(): FORWARD_UART_LOGS = false
RDisable(r) ==
    /\ At(r, "r_disable")
    /\ FORWARD_UART_LOGS' = FALSE
    /\ Goto(r, "r_clear")
    /\ UNCHANGED <<sdVars, LOG_FORWARD_MUTEX, LOG_VAR_MUTEX, CONTEXT, cliOut,
                   rdrVars, stk, locVars, envVars, restVars>>

RClear(r) ==
    /\ At(r, "r_clear")
    /\ CONTEXT' = NULL
    /\ Goto(r, "r_ack")
    /\ UNCHANGED <<sdVars, LOG_FORWARD_MUTEX, LOG_VAR_MUTEX, FORWARD_UART_LOGS, cliOut,
                   rdrVars, stk, locVars, envVars, restVars>>

\* Semaphore_post(shutdown_ack_sem); break;
RAck(r) ==
    /\ At(r, "r_ack")
    /\ shutdown_ack_sem' = shutdown_ack_sem + 1
    /\ Goto(r, "r_pend")
    /\ UNCHANGED <<sdVars, fwdVars, LOG_READER_CTX_MUTEX, log_reader_sem,
                   uart_log_queue, queue_elements, queue_idx, logger_data_avail_sem, stk, locVars, envVars, restVars>>

ReaderTaskStep(r) ==
    \/ RPend(r) \/ RHello(r) \/ REnable(r) \/ RLoop(r) \/ RPoll(r)
    \/ RDisable(r) \/ RClear(r) \/ RAck(r)

\* ===================================================== cli.c
\* ---- memory reached through context->cursor
LineOf(addr) == addr \div SizeofLine
OffOf(addr) == addr % SizeofLine
InBuf(addr) ==
    /\ addr >= 0
    /\ LineOf(addr) < CLI_BUFCNT
    /\ OffOf(addr) < CLI_MAX_LINE
Store(ls, addr, c) == [ls EXCEPT ![LineOf(addr)].line_buf[OffOf(addr)] = c]
CursorOff == cursor - line_idx * SizeofLine

\* The C string starting at buf[i]: the bytes before the first NUL.
RECURSIVE CStrFrom(_, _)
CStrFrom(buf, i) ==
    IF i >= CLI_MAX_LINE \/ buf[i] = NUL
    THEN <<>>
    ELSE <<buf[i]>> \o CStrFrom(buf, i + 1)

\* ---- the VT-100 on the other end of cli_write
\* a printing byte lands on the cursor's column and the cursor moves right
TermPut(s, col, c) ==
    IF col < Len(s)
    THEN [s EXCEPT ![col + 1] = c]
    ELSE s \o [i \in 1..(col - Len(s)) |-> SP] \o <<c>>

\* cli_write(line_buf, len) on a cleared line: NUL bytes print nothing
RECURSIVE TermLine(_, _, _)
TermLine(buf, i, n) ==
    IF i >= n
    THEN <<>>
    ELSE (IF buf[i] = NUL THEN <<>> ELSE <<buf[i]>>) \o TermLine(buf, i + 1, n)

\* what the user sees after the prompt: the text without trailing blanks
RECURSIVE Shown(_)
Shown(s) ==
    IF s # <<>> /\ s[Len(s)] = SP THEN Shown(SubSeq(s, 1, Len(s) - 1)) ELSE s

\* ---- move_line_index(context, forwards)
move_line_index(idx, forwards) ==
    IF forwards
    THEN (IF idx + 1 = CLI_BUFCNT THEN 0 ELSE idx + 1)
    ELSE (IF idx - 1 < 0 THEN CLI_BUFCNT - 1 ELSE idx - 1)

\* ---- start_cli: top of the outer loop
CliPrompt ==
    /\ cli_pc = "prompt"
    /\ ~smashed
    /\ current_line' = line_idx
    /\ cursor' = line_idx * SizeofLine
    /\ lines' = [lines EXCEPT ![line_idx].len = 0,
                              ![move_line_index(line_idx, TRUE)].len = CLI_EMPTY_LINELEN]
    /\ term' = <<>>
    /\ tcol' = 0
    /\ typed' = <<>>
    /\ esc_echoed' = FALSE
    /\ cli_pc' = "read"
    /\ ups' = 0
    /\ UNCHANGED <<line_idx, cmd, esc_buf, submitted, nkeys, smashed, nonCliVars>>

\* context->cli_read(&input, 1) delivers the next key
ReadKey ==
    /\ cli_pc = "read"
    /\ ~smashed
    /\ nkeys < MaxKeys
    /\ nkeys' = nkeys + 1
    /\ UNCHANGED nonCliVars

\* a key other than Up and CR
OtherKey ==
    /\ ups' = NoUps
    /\ UNCHANGED submitted

\* the lines start_cli keeps for recall: the last CLI_HISTORY dispatched
KeepHistory(ls) ==
    IF Len(ls) > CLI_HISTORY THEN SubSeq(ls, Len(ls) - CLI_HISTORY + 1, Len(ls)) ELSE ls

\* ---- start_cli, default case: a printable byte
KeyChar(c) ==
    /\ ReadKey
    /\ OtherKey
    /\ esc_buf' = <<>>
    /\ typed' = IF typed = NoStack \/ Len(typed) >= CLI_MAX_LINE - 1
                THEN NoStack
                ELSE Append(typed, c)
    /\ IF lines[current_line].len >= CLI_MAX_LINE - 1
       THEN UNCHANGED <<lines, cursor, term, tcol, smashed>>
       ELSE /\ term' = TermPut(term, tcol, c)
            /\ tcol' = tcol + 1
            /\ cursor' = cursor + 1
            /\ IF InBuf(cursor)
               THEN LET l1 == Store(lines, cursor, c)
                        d == cursor + 1 - current_line * SizeofLine
                    IN  /\ lines' = IF d > l1[current_line].len
                                    THEN [l1 EXCEPT ![current_line].len = d]
                                    ELSE l1
                        /\ UNCHANGED smashed
               ELSE smashed' = TRUE /\ UNCHANGED lines
    /\ UNCHANGED <<line_idx, current_line, cli_pc, cmd, esc_echoed>>

\* ---- cli_handle_backspace
KeyBackspace_keeplen ==
    /\ ReadKey
    /\ OtherKey
    /\ esc_buf' = <<>>
    /\ typed' = IF typed = NoStack THEN NoStack
                ELSE IF typed = <<>> THEN <<>>
                ELSE SubSeq(typed, 1, Len(typed) - 1)
    /\ IF CursorOff # 0
       THEN /\ term' = TermPut(term, tcol - 1, SP)
            /\ tcol' = tcol - 1
            /\ cursor' = cursor - 1
            /\ UNCHANGED <<lines, smashed>>
       ELSE UNCHANGED <<lines, cursor, term, tcol, smashed>>
    /\ UNCHANGED <<line_idx, current_line, cli_pc, cmd, esc_echoed>>

\* Faulty variant: a backspace that deletes wherever the cursor is.
KeyBackspace_midline ==
    /\ ReadKey
    /\ OtherKey
    /\ esc_buf' = <<>>
    /\ typed' = IF typed = NoStack THEN NoStack
                ELSE IF typed = <<>> THEN <<>>
                ELSE SubSeq(typed, 1, Len(typed) - 1)
    /\ IF CursorOff # 0
       THEN /\ term' = TermPut(term, tcol - 1, SP)
            /\ tcol' = tcol - 1
            /\ cursor' = cursor - 1
            /\ IF InBuf(cursor - 1)
               THEN /\ lines' = [Store(lines, cursor - 1, NUL)
                                   EXCEPT ![line_idx].len = @ - 1]
                    /\ UNCHANGED smashed
               ELSE smashed' = TRUE /\ UNCHANGED lines
       ELSE UNCHANGED <<lines, cursor, term, tcol, smashed>>
    /\ UNCHANGED <<line_idx, current_line, cli_pc, cmd, esc_echoed>>

KeyBackspace ==
    /\ ReadKey
    /\ OtherKey
    /\ esc_buf' = <<>>
    /\ typed' = IF typed = NoStack THEN NoStack
                ELSE IF typed = <<>> THEN <<>>
                ELSE SubSeq(typed, 1, Len(typed) - 1)
    /\ IF CursorOff = lines[line_idx].len /\ CursorOff # 0
       THEN /\ term' = TermPut(term, tcol - 1, SP)
            /\ tcol' = tcol - 1
            /\ cursor' = cursor - 1
            /\ IF InBuf(cursor - 1)
               THEN /\ lines' = [Store(lines, cursor - 1, NUL)
                                   EXCEPT ![line_idx].len = @ - 1]
                    /\ UNCHANGED smashed
               ELSE smashed' = TRUE /\ UNCHANGED lines
       ELSE UNCHANGED <<lines, cursor, term, tcol, smashed>>
    /\ UNCHANGED <<line_idx, current_line, cli_pc, cmd, esc_echoed>>

\* ---- cli_handle_return, then back to the top of start_cli's loop
KeyReturn ==
    /\ ReadKey
    /\ ups' = NoUps
    /\ esc_buf' = <<>>
    /\ term' = <<>>
    /\ tcol' = 0
    /\ cli_pc' = "prompt"
    /\ LET n == lines[line_idx].len
       IN  IF n < 0 \/ n >= CLI_MAX_LINE
           THEN smashed' = TRUE /\ UNCHANGED <<lines, line_idx, cmd>>
           ELSE LET l1 == [lines EXCEPT ![line_idx].line_buf[n] = NUL]
                IN  /\ UNCHANGED smashed
                    /\ IF n = 0
                       THEN /\ lines' = [l1 EXCEPT ![line_idx].len = CLI_EMPTY_LINELEN]
                            /\ cmd' = NoCmd
                            /\ UNCHANGED line_idx
                       ELSE /\ lines' = l1
                            /\ line_idx' = move_line_index(line_idx, TRUE)
                            /\ cmd' = CStrFrom(l1[line_idx].line_buf, 0)
    /\ submitted' = IF line_idx' # line_idx
                    THEN KeepHistory(Append(submitted, cmd'))
                    ELSE submitted
    /\ UNCHANGED <<cursor, current_line, typed, esc_echoed>>

\* ---- cli_handle_esc: ESC [ A and ESC [ B
\* the line at new_idx is shown when it is in use, else the index is put back
Recall_unchecked(new_idx) ==
    /\ ReadKey
    /\ ups' = IF /\ ups # NoUps /\ ups < CLI_HISTORY
                 /\ new_idx = move_line_index(line_idx, FALSE)
              THEN ups + 1
              ELSE NoUps
    /\ UNCHANGED submitted
    /\ esc_buf' = <<"[", IF new_idx = move_line_index(line_idx, FALSE) THEN "A" ELSE "B">>
    /\ typed' = NoStack
    /\ line_idx' = new_idx
    /\ cursor' = new_idx * SizeofLine + lines[new_idx].len
    /\ term' = TermLine(lines[new_idx].line_buf, 0, lines[new_idx].len)
    /\ tcol' = Len(term')
    /\ UNCHANGED <<lines, current_line, cli_pc, cmd, esc_echoed, smashed>>

Recall(new_idx) ==
    /\ ReadKey
    /\ ups' = IF /\ ups # NoUps /\ ups < CLI_HISTORY
                 /\ new_idx = move_line_index(line_idx, FALSE)
              THEN ups + 1
              ELSE NoUps
    /\ UNCHANGED submitted
    /\ esc_buf' = <<"[", IF new_idx = move_line_index(line_idx, FALSE) THEN "A" ELSE "B">>
    /\ typed' = NoStack
    /\ LET n == lines[new_idx].len
       IN  IF n # CLI_EMPTY_LINELEN
           THEN /\ line_idx' = new_idx
                /\ cursor' = new_idx * SizeofLine + n
                /\ IF n >= 0 /\ n <= CLI_MAX_LINE
                   THEN /\ term' = TermLine(lines[new_idx].line_buf, 0, n)
                        /\ tcol' = Len(term')
                        /\ UNCHANGED smashed
                   ELSE smashed' = TRUE /\ UNCHANGED <<term, tcol>>
           ELSE UNCHANGED <<line_idx, cursor, term, tcol, smashed>>
    /\ UNCHANGED <<lines, current_line, cli_pc, cmd, esc_echoed>>

KeyUp == Recall(move_line_index(line_idx, FALSE))

KeyDown == Recall(move_line_index(line_idx, TRUE))

\* ESC [ C
KeyRight ==
    /\ ReadKey
    /\ OtherKey
    /\ esc_buf' = <<"[", "C">>
    /\ typed' = NoStack
    /\ IF CursorOff # lines[line_idx].len
       THEN cursor' = cursor + 1 /\ tcol' = tcol + 1
       ELSE UNCHANGED <<cursor, tcol>>
    /\ UNCHANGED <<lines, line_idx, current_line, cli_pc, term, cmd, esc_echoed, smashed>>

\* Faulty variant: Left without the test for column 0.
KeyLeft_unchecked ==
    /\ ReadKey
    /\ OtherKey
    /\ esc_buf' = <<"[", "D">>
    /\ typed' = NoStack
    /\ cursor' = cursor - 1
    /\ tcol' = tcol - 1
    /\ UNCHANGED <<lines, line_idx, current_line, cli_pc, term, cmd, esc_echoed, smashed>>

\* ESC [ D
KeyLeft ==
    /\ ReadKey
    /\ OtherKey
    /\ esc_buf' = <<"[", "D">>
    /\ typed' = NoStack
    /\ IF CursorOff # 0
       THEN cursor' = cursor - 1 /\ tcol' = tcol - 1
       ELSE UNCHANGED <<cursor, tcol>>
    /\ UNCHANGED <<lines, line_idx, current_line, cli_pc, term, cmd, esc_echoed, smashed>>

\* Faulty variant: the default case of cli_handle_esc echoing the two bytes.
KeyEscOther_echo ==
    /\ ReadKey
    /\ OtherKey
    /\ esc_buf' = <<"[", "b">>
    /\ typed' = NoStack
    /\ term' = TermPut(TermPut(term, tcol, "["), tcol + 1, "b")
    /\ tcol' = tcol + 2
    /\ esc_echoed' = TRUE
    /\ UNCHANGED <<lines, line_idx, cursor, current_line, cli_pc, cmd, smashed>>

\* ESC [ and a byte other than A, B, C, D (here 'b'): ignored
KeyEscOther ==
    /\ ReadKey
    /\ OtherKey
    /\ esc_buf' = <<"[", "b">>
    /\ typed' = NoStack
    /\ UNCHANGED <<lines, line_idx, cursor, current_line, cli_pc, term, tcol, cmd,
                   esc_echoed, smashed>>

\* ESC and two bytes of which the first is not '[': cli_write(esc_buf, 2)
KeyEscRaw(b1, b2) ==
    /\ ReadKey
    /\ OtherKey
    /\ esc_buf' = <<b1, b2>>
    /\ typed' = NoStack
    /\ term' = TermPut(TermPut(term, tcol, b1), tcol + 1, b2)
    /\ tcol' = tcol + 2
    /\ esc_echoed' = TRUE
    /\ UNCHANGED <<lines, line_idx, cursor, current_line, cli_pc, cmd, smashed>>

\* ===================================================== specifications
\* Storage lifecycle: the ingestion task and consoles typing the SD commands.
Next ==
    \/ IngStep(ING)
    \/ \E t \in Tasks : SdStep(t)
    \/ \E t \in Consoles : HandleCommand(t, SdCmds) \/ SdCmdStep(t)

Spec == Init /\ [][Next]_vars

\* The same program under the scheduler's guarantee: a task that can run is
\* eventually run.  What arrives from outside (a byte on the UART, a command
\* typed on a console) is under no such obligation.
Fairness ==
    /\ WF_vars(IngStep(ING) /\ pc[ING] # "i_read")
    /\ \A t \in Tasks : WF_vars(SdStep(t))
    /\ \A t \in Consoles : WF_vars(SdCmdStep(t))

SpecFair == Init /\ [][Next]_vars /\ Fairness

\* Forwarding broker: the ingestion task and consoles typing connect_log and
\* disconnect_log; nobody unmounts, so the ingestion task's own boot-time mount
\* is the only SD activity besides its writes.
NextFwd ==
    \/ IngStep(ING)
    \/ AmLock(ING) \/ AmCheck(ING) \/ AmProbe(ING) \/ AmFinish(ING) \/ AmUnlock(ING)
    \/ WsLock(ING)
    \/ WrLock(ING) \/ FWrite(ING) \/ WrUnlock(ING)
    \/ WtCall(ING) \/ WtRet(ING)
    \/ \E t \in Consoles :
        HandleCommand(t, FwdCmds) \/ FwdStep(t) \/ FwdCmdStep(t)

SpecFwd == Init /\ [][NextFwd]_vars

\* The forwarding broker with a line that delivers MaxTapReads bytes, under the
\* scheduler's guarantee for the ingestion task.  CONTEXT->cli_write returns
\* when the console's transport has taken the byte; a consumer that is slow or
\* blocked is under no obligation to let it return, so the step that completes
\* a forward carries no fairness.
NextTap ==
    \/ NextFwd
    \/ IReadUpTo(ING, MaxTapReads)

TapIngestion ==
    /\ \/ IngStep(ING)
       \/ IReadUpTo(ING, MaxTapReads)
       \/ SdStep(ING)
    /\ ~(pc[ING] = "i_fwd" /\ FORWARD_UART_LOGS)

SpecTap == Init /\ [][NextTap]_vars /\ WF_vars(TapIngestion)

\* The forwarding broker handed from one console to the other: up to
\* MaxFwdCmds connect_log / disconnect_log commands while the line delivers
\* MaxTapReads bytes.
NextHandover ==
    \/ NextTap
    \/ \E t \in Consoles : HandleCommandUpTo(t, FwdCmds, MaxFwdCmds)

SpecHandover == Init /\ [][NextHandover]_vars

\* The forwarding broker with consoles typing rtt and disconnect_log.
NextRtt ==
    \/ IngStep(ING)
    \/ AmLock(ING) \/ AmCheck(ING) \/ AmProbe(ING) \/ AmFinish(ING) \/ AmUnlock(ING)
    \/ WsLock(ING)
    \/ WrLock(ING) \/ FWrite(ING) \/ WrUnlock(ING)
    \/ WtCall(ING) \/ WtRet(ING)
    \/ \E t \in Consoles :
        \/ HandleCommand(t, RttCmds)
        \/ FwdStep(t) \/ RttStep(t)
        \/ DisconnectLogCall(t) \/ DisconnectLogRet(t)

SpecRtt == Init /\ [][NextRtt]_vars

\* handle_command on its own, called once with a line as cli_handle_return
\* hands it over: not empty, shorter than the line capacity.  The lines are
\* built from up to MaxWords words with one or two spaces between them and
\* none or one before and after; the first word is a command name or not.
Spaces(n) == [i \in 1..n |-> SP]

RECURSIVE Join(_, _)
Join(ws, gap) ==
    IF ws = <<>> THEN <<>>
    ELSE IF Len(ws) = 1 THEN ws[1]
    ELSE ws[1] \o Spaces(gap) \o Join(Tail(ws), gap)

FirstWords == {<<"r", "t", "t">>, <<"r", "t">>, <<"t">>}
RestWords == {<<"r">>, <<"t">>}

ArgLines ==
    {Spaces(n) : n \in 1..2} \cup
    UNION {{Spaces(lead) \o Join(<<f>> \o rest, gap) \o Spaces(trail) :
               f \in FirstWords, rest \in [1..n -> RestWords],
               lead \in 0..1, gap \in 1..2, trail \in 0..1} : n \in 0..(MaxWords - 1)}

NextArgs ==
    /\ hc_pc = "idle"
    /\ \E line \in ArgLines :
        /\ Len(line) < MaxArgLine
        /\ handle_command(line, MaxArgLine)

SpecArgs == Init /\ [][NextArgs]_vars

\* Relay-task build: the queue-forwarding logger, the log reader task, and
\* console tasks calling start_log_reader and stop_log_reader.
InitRelay == InitAt("q_boot")

NextRelay ==
    \/ QueueLoggerStep(ING)
    \/ AmLock(ING) \/ AmCheck(ING) \/ AmProbe(ING) \/ AmFinish(ING) \/ AmUnlock(ING)
    \/ WsLock(ING)
    \/ WrLock(ING) \/ FWrite(ING) \/ WrUnlock(ING)
    \/ ReaderTaskStep(RDR)
    \/ \E t \in Consoles : ReaderCall(t) \/ ReaderApiStep(t)

SpecRelay == InitRelay /\ [][NextRelay]_vars

\* The console session the single-session specifications follow.
Session == "c1"

\* The relay-task build with one more start/stop call, so that an owner's stop
\* runs next to another console's call.
NextHandshake ==
    \/ NextRelay
    \/ \E t \in Consoles : ReaderCallUpTo(t, MaxStops)

SpecHandshake == InitRelay /\ [][NextHandshake]_vars

\* The relay-task build with one session making every start_log_reader and
\* stop_log_reader call, under the scheduler's guarantee: the relay task and the
\* session, when they can run, eventually run.  Bytes on the logged line and
\* the session's next call are under no such obligation.
NextStop ==
    \/ QueueLoggerStep(ING)
    \/ AmLock(ING) \/ AmCheck(ING) \/ AmProbe(ING) \/ AmFinish(ING) \/ AmUnlock(ING)
    \/ WsLock(ING)
    \/ WrLock(ING) \/ FWrite(ING) \/ WrUnlock(ING)
    \/ ReaderTaskStep(RDR)
    \/ ReaderCallUpTo(Session, MaxStops)
    \/ SlLock(Session) \/ SlSet(Session) \/ SlPost(Session)
    \/ StChk(Session) \/ StPost(Session) \/ StPend(Session) \/ StUnlock(Session)

StopFairness ==
    /\ WF_vars(ReaderTaskStep(RDR))
    /\ WF_vars(ReaderApiStep(Session))

SpecStop == InitRelay /\ [][NextStop]_vars /\ StopFairness

\* The queue of the relay-task build, from the moment console c1 has started
\* the reader, the reader task is in its relay loop and the logger has mounted
\* the card and is about to read its first byte.  The logger reads enough
\* bytes to use every element of queue_elements more than once; the consumer
\* takes elements off the queue whenever it gets to run.
InitRing ==
    /\ SD_CARD_MOUNTED = TRUE
    /\ SD_CARD_RW_MUTEX = {}
    /\ SD_CARD_READY = {}
    /\ LOGFILE = TRUE
    /\ SDSPI_HANDLE = TRUE
    /\ vcc = TRUE
    /\ card = <<>>
    /\ LOG_FORWARD_MUTEX = {}
    /\ LOG_VAR_MUTEX = {}
    /\ FORWARD_UART_LOGS = TRUE
    /\ CONTEXT = "c1"
    /\ cliOut = << <<"c1", 0>> >>
    /\ LOG_READER_CTX_MUTEX = {"c1"}
    /\ log_reader_sem = 0
    /\ shutdown_ack_sem = 0
    /\ uart_log_queue = EmptyQueue
    /\ queue_elements = [e \in 0..(MAX_QUEUE - 1) |-> 0]
    /\ queue_idx = 0
    /\ logger_data_avail_sem = 0
    /\ pc = [t \in Tasks |-> CASE t = ING -> "q_read"
                               [] t = RDR -> "r_loop"
                               [] OTHER -> "idle"]
    /\ stk = [t \in Tasks |-> <<>>]
    /\ ret = [t \in Tasks |-> IF t = ING THEN 1 ELSE 0]
    /\ fresult = [t \in Tasks |-> 0]
    /\ widx = [t \in Tasks |-> 0]
    /\ wbuf = [t \in Tasks |-> 0]
    /\ hw = [t \in Tasks |-> <<>>]
    /\ out = [t \in Tasks |-> ""]
    /\ rc = [t \in Tasks |-> 0]
    /\ read_char = 0
    /\ nread = 0
    /\ ncmd = 1
    /\ aborted = FALSE
    /\ CliInit
    /\ RttInit
    /\ HcInit
    /\ fsize = 0
    /\ FIRST_INIT = TRUE
    /\ nattempt = 0

NextRing ==
    \/ QReadUpTo(ING, MaxEnq) \/ QCheck(ING) \/ QWriteRet(ING) \/ QEnqueue(ING)
    \/ WrLock(ING) \/ FWrite(ING) \/ WrUnlock(ING)
    \/ DequeueLoggerData(RDR)

SpecRing == InitRing /\ [][NextRing]_vars

\* One console session typing mount, unmount and sdstatus once the logger
\* task is through its boot-time attempt_sd_mount: from then on the session is
\* the only task that mounts or unmounts.
IngBooted ==
    pc[ING] \notin {"i_boot", "i_boot_ret", "am_lock", "am_check", "am_probe",
                    "am_finish", "am_unlock"}

SessionCommand ==
    /\ IngBooted
    /\ HandleCommand(Session, SessionCmds)

NextSession ==
    \/ IngStep(ING)
    \/ WsLock(ING) \/ WsWake(ING) \/ WsUnlock(ING)
    \/ WrLock(ING) \/ FWrite(ING) \/ WrUnlock(ING)
    \/ WtCall(ING) \/ WtRet(ING)
    \/ \E t \in {ING, Session} :
         AmLock(t) \/ AmCheck(t) \/ AmProbe(t) \/ AmFinish(t) \/ AmUnlock(t)
    \/ SessionCommand
    \/ MountChk(Session) \/ MountRet(Session)
    \/ UnmountChk(Session) \/ UnmountRet(Session)
    \/ UmLock(Session) \/ UmBody(Session) \/ UmUnlock(Session)
    \/ StatusChk(Session)

SpecSession == Init /\ [][NextSession]_vars

\* The log file's size: the ingestion task mounts and writes, then one console
\* types mount, unmount and filesize.
SizeCommand ==
    /\ IngBooted
    /\ HandleCommand(Session, SizeCmds)

NextSize ==
    \/ IngStep(ING)
    \/ WsLock(ING) \/ WsWake(ING) \/ WsUnlock(ING)
    \/ WrLock(ING) \/ FWrite(ING) \/ WrUnlock(ING)
    \/ WtCall(ING) \/ WtRet(ING)
    \/ \E t \in {ING, Session} :
         AmLock(t) \/ AmCheck(t) \/ AmProbe(t) \/ AmFinish(t) \/ AmUnlock(t)
    \/ SizeCommand
    \/ MountChk(Session) \/ MountRet(Session)
    \/ UnmountChk(Session) \/ UnmountRet(Session)
    \/ UmLock(Session) \/ UmBody(Session) \/ UmUnlock(Session)
    \/ FilesizeChk(Session)

SpecSize == Init /\ [][NextSize]_vars

\* The revision with the settle delay: consoles typing mount and unmount.
SettleCmds == {"mount", "unmount"}

NextSettle ==
    \E t \in Consoles :
        \/ HandleCommandUpTo(t, SettleCmds, MaxMounts)
        \/ MountChk(t) \/ MountRet(t) \/ UnmountChk(t) \/ UnmountRet(t)
        \/ AmLock(t) \/ OldAmCheck(t) \/ AmProbe(t) \/ OldAmFinish(t) \/ AmUnlock(t)
        \/ AmEarlyUnlock(t) \/ AmEarlyRet(t)
        \/ UmLock(t) \/ OldUmBody(t) \/ UmUnlock(t)

SpecSettle == Init /\ [][NextSettle]_vars

\* Card power: consoles typing mount, unmount and sdpwr.
NextPower ==
    \E t \in Consoles :
        \/ HandleCommandUpTo(t, PowerCmds, MaxPowerCmds)
        \/ MountChk(t) \/ MountRet(t) \/ UnmountChk(t) \/ UnmountRet(t)
        \/ AmLock(t) \/ AmCheck(t) \/ AmProbe(t) \/ AmFinish(t) \/ AmUnlock(t)
        \/ AmEarlyUnlock(t) \/ AmEarlyRet(t)
        \/ UmLock(t) \/ UmBody(t) \/ UmUnlock(t)
        \/ Sdpwr(t)

SpecPower == Init /\ [][NextPower]_vars

\* The line editor of one console: start_cli fed with keys.  One unrecognised
\* escape sequence, ESC b b, stands for all of them.
NextCli ==
    \/ CliPrompt
    \/ \E c \in Chars : KeyChar(c)
    \/ KeyBackspace
    \/ KeyReturn
    \/ KeyUp
    \/ KeyDown
    \/ KeyRight
    \/ KeyLeft
    \/ KeyEscOther
    \/ KeyEscRaw("b", "b")

SpecCli == Init /\ [][NextCli]_vars

\* ===================================================== claims
\* The step is one of task t.
StepOf(t) == pc'[t] # pc[t]
fwdState == <<LOG_FORWARD_MUTEX, FORWARD_UART_LOGS, CONTEXT>>
EnablePcs == {"e_varlock", "e_set"}
DisablePcs == {"d_varlock", "d_unlockfwd", "d_fail"}

\* C1: at most one session holds the forwarding permit at a time; a holder that
\* has finished enable_log_forwarding keeps FORWARD_UART_LOGS = true and
\* CONTEXT = its own context whatever the other sessions do; the trylock never
\* blocks; an enable_log_forwarding issued while the permit is held returns -1
\* and changes nothing, and connect_log then prints the diagnostic with status 255.
C1_PermitInv ==
    /\ Cardinality(LOG_FORWARD_MUTEX) <= 1
    /\ \A h \in Consoles :
        (h \in LOG_FORWARD_MUTEX /\ pc[h] \notin EnablePcs)
            => (FORWARD_UART_LOGS /\ CONTEXT = h)
    /\ \A t \in Consoles : At(t, "e_trylock") => ENABLED ETryLock(t)
C1_BusyStep ==
    \A t \in Consoles :
        /\ (pc[t] = "e_trylock" /\ StepOf(t) /\ LOG_FORWARD_MUTEX # {})
            => (pc'[t] = "e_return" /\ ret'[t] = -1 /\ UNCHANGED fwdState)
        /\ (pc[t] = "cl_ret" /\ StepOf(t) /\ ret[t] = -1)
            => (out'[t] = "Could not enable log forwarding" /\ rc'[t] = 255
                /\ UNCHANGED fwdState)
C1_ExclusivePermit == []C1_PermitInv /\ [][C1_BusyStep]_vars
\* A second console was refused while the first one's forwarding is active.
C1_Witness ==
    \E a, b \in Consoles :
        /\ a # b
        /\ LOG_FORWARD_MUTEX = {a} /\ FORWARD_UART_LOGS /\ CONTEXT = a
        /\ pc[a] = "idle" /\ pc[b] = "idle"
        /\ out[b] = "Could not enable log forwarding" /\ rc[b] = 255

\* C2: every step of disable_log_forwarding taken by a session that does not
\* hold the permit, while another session holds it, leaves FORWARD_UART_LOGS,
\* CONTEXT and the permit's holder unchanged, and the call returns -1.
C2_NonOwnerStep ==
    \A t \in Consoles :
        (pc[t] \in DisablePcs /\ StepOf(t)
         /\ t \notin LOG_FORWARD_MUTEX /\ LOG_FORWARD_MUTEX # {})
            => /\ UNCHANGED fwdState
               /\ pc'[t] \in DisablePcs \cup {"d_return"}
               /\ pc'[t] = "d_return" => ret'[t] = -1
C2_NonOwnerDisable == [][C2_NonOwnerStep]_vars
\* A non-holder's disable_log_forwarding has returned -1 while the holder's
\* forwarding is still on.
C2_Witness ==
    \E a, b \in Consoles :
        /\ a # b
        /\ pc[b] = "dl_ret" /\ ret[b] = -1
        /\ LOG_FORWARD_MUTEX = {a} /\ FORWARD_UART_LOGS /\ CONTEXT = a

\* C3: in the relay-task build, while a console that did not start the log
\* reader is inside stop_log_reader or has come back from it with -1, the
\* owner (the idle console that holds LOG_READER_CTX_MUTEX) keeps its state at
\* every step: CONTEXT stays the owner's context and FORWARD_UART_LOGS stays
\* true; and the non-owner's failed unlock ends in the return value -1.
StopPcs == {"st_post", "st_pend", "st_unlock", "st_repost"}
InOrAfterStop(b) == pc[b] \in StopPcs \/ (pc[b] = "idle" /\ ret[b] = -1)
C3_Step ==
    /\ \A a, b \in Consoles :
        (/\ a # b
         /\ a \in LOG_READER_CTX_MUTEX /\ pc[a] = "idle" /\ ~StepOf(a)
         /\ CONTEXT = a /\ FORWARD_UART_LOGS
         /\ b \notin LOG_READER_CTX_MUTEX /\ InOrAfterStop(b))
            => (CONTEXT' = a /\ FORWARD_UART_LOGS')
    /\ \A b \in Consoles :
        (pc[b] = "st_unlock" /\ StepOf(b) /\ b \notin LOG_READER_CTX_MUTEX)
            => pc'[b] = "st_repost"
    /\ \A b \in Consoles :
        (pc[b] = "st_repost" /\ StepOf(b)) => (pc'[b] = "idle" /\ ret'[b] = -1)
C3_OwnerUntouched == [][C3_Step]_vars

C4_NoOwnerStep ==
    \A t \in Consoles :
        /\ (pc[t] \in DisablePcs /\ StepOf(t) /\ LOG_FORWARD_MUTEX = {})
            => /\ UNCHANGED <<fwdState, cliOut>>
               /\ pc'[t] \in DisablePcs \cup {"d_return"}
               /\ pc'[t] = "d_return" => ret'[t] = -1
        /\ (pc[t] = "dl_ret" /\ StepOf(t) /\ ret[t] = -1)
            => (out'[t] = "Could not disable log forwarding from this terminal"
                /\ rc'[t] = 255 /\ UNCHANGED <<fwdState, cliOut>>)
C5_WaiterSeesMounted ==
    \A t \in Tasks : pc[t] = "ws_unlock" => SD_CARD_MOUNTED

\* C6: if the card ends up mounted for good, the ingestion task does not stay
\* blocked in wait_sd_ready for ever.
C6_IngestionResumes ==
    (<>[]SD_CARD_MOUNTED) => []<>(pc[ING] # "ws_blocked")

\* C7: attempt_sd_mount finding SD_CARD_MOUNTED true takes the early return:
\* none of its steps writes the power GPIO, opens the SPI bus, probes the card,
\* opens the file or broadcasts (hw[t] stays empty), none changes the mount
\* state, the mutex is released again, and the value returned is true as long
\* as the card is still mounted when `return SD_CARD_MOUNTED` reads the flag.
sdState == <<SD_CARD_MOUNTED, SD_CARD_READY, LOGFILE, SDSPI_HANDLE, vcc, card>>
C7_Step ==
    \A t \in Tasks :
        /\ (pc[t] = "am_check" /\ SD_CARD_MOUNTED
            /\ (StepOf(t) \/ hw'[t] # hw[t]))
            => (pc'[t] = "am_early_unlock" /\ hw'[t] = <<>> /\ ~aborted'
                /\ UNCHANGED <<sdState, SD_CARD_RW_MUTEX>>)
        /\ (pc[t] = "am_early_unlock" /\ StepOf(t))
            => (pc'[t] = "am_early_ret" /\ hw'[t] = <<>> /\ UNCHANGED sdState
                /\ SD_CARD_RW_MUTEX' = SD_CARD_RW_MUTEX \ {t})
        /\ (pc[t] = "am_early_ret" /\ StepOf(t))
            => (hw'[t] = <<>> /\ UNCHANGED <<sdState, SD_CARD_RW_MUTEX>>
                /\ (SD_CARD_MOUNTED => ret'[t] = 1))
C7_EarlyInv ==
    \A t \in Tasks :
        pc[t] \in {"am_early_unlock", "am_early_ret"} => hw[t] = <<>>
SameWrite(u, v) == u.w = v.w /\ u.n = v.n /\ v.k = u.k + 1
C8_WholeBuffers ==
    /\ Cardinality(SD_CARD_RW_MUTEX) <= 1
    /\ \A i \in 1..Len(card) :
        /\ card[i].k > 1 => (i > 1 /\ SameWrite(card[i - 1], card[i]))
        /\ card[i].k < card[i].n =>
            IF i < Len(card)
            THEN SameWrite(card[i], card[i + 1])
            ELSE /\ pc[card[i].w] = "wr_fwrite"
                 /\ card[i].w \in SD_CARD_RW_MUTEX
                 /\ widx[card[i].w] = card[i].k
\* One task is half way through a buffer while another waits to write, and the
\* file already holds a complete buffer of a third writer.
C8_Witness ==
    \E a, b \in Tasks :
        /\ a # b
        /\ pc[a] = "wr_fwrite" /\ wbuf[a] = BufLen /\ widx[a] = 1
        /\ pc[b] = "wr_lock"
        /\ Len(card) = BufLen + 1
        /\ card[1].w \notin {a}

\* C9: f_write is never executed on LOGFILE while SD_CARD_MOUNTED is false, for
\* the writers the claim names: the ingestion loop's write of the byte it read
\* (after its sd_card_mounted() check) and the console's write_sd command.
CheckedWriters == {"i_wr_ret", "w_ret"}
C9_NoWriteWhileUnmounted ==
    \A t \in Tasks :
        (pc[t] = "wr_fwrite" /\ Head(stk[t]) \in CheckedWriters) => SD_CARD_MOUNTED

\* C10: a failed write of a byte to a mounted card with an open log file is
\* returned as an error, leaves SD_CARD_MOUNTED true and does not terminate the
\* ingestion task.
C10_Step ==
    /\ (pc[ING] = "wr_fwrite" /\ Head(stk[ING]) = "i_wr_ret" /\ StepOf(ING)
        /\ fresult'[ING] # 0)
        => UNCHANGED SD_CARD_MOUNTED
    /\ (pc[ING] = "wr_unlock" /\ StepOf(ING) /\ fresult[ING] # 0)
        => (ret'[ING] = -1 /\ UNCHANGED SD_CARD_MOUNTED)
    /\ (pc[ING] = "i_wr_ret" /\ ret[ING] = -1 /\ SD_CARD_MOUNTED /\ LOGFILE
        /\ ~aborted)
        => ~aborted'
C10_WriteFailureSurvived == [][C10_Step]_vars

\* C11: whenever SD_CARD_RW_MUTEX is not held, the log file object is open
\* exactly when SD_CARD_MOUNTED is true.
C11_FileIffMounted ==
    SD_CARD_RW_MUTEX = {} => (LOGFILE <=> SD_CARD_MOUNTED)
\* A console has unmounted a card that was mounted and written to, and the
\* mutex is free again: flag and file object are both down.
C11_Witness ==
    \E t \in Consoles :
        /\ pc[t] = "idle" /\ out[t] = "SD card unmounted"
        /\ SD_CARD_RW_MUTEX = {} /\ ~SD_CARD_MOUNTED /\ ~LOGFILE
        /\ Len(card) > 0

\* C12: in the queue-forwarding logger, once more than MAX_QUEUE bytes have been
\* enqueued and none dequeued, the bytes retrievable through dequeue_logger_data
\* are exactly the most recent MAX_QUEUE bytes, oldest first.
RECURSIVE Walk(_, _, _)
Walk(q, node, fuel) ==
    IF node = QHead \/ fuel = 0
    THEN <<>>
    ELSE <<queue_elements[node]>> \o Walk(q, q.next[node], fuel - 1)
Retrievable == Walk(uart_log_queue, uart_log_queue.next[QHead], MAX_QUEUE + 1)
C12_MostRecentKept ==
    (pc[ING] = "q_read" /\ nread > MAX_QUEUE /\ Len(cliOut) = 1)
        => Retrievable = [i \in 1..MAX_QUEUE |-> nread - MAX_QUEUE + i]

\* ---------------------------------------------------------------- C13
\* C13: a slow or blocked forwarding consumer never makes the storage write
\* of an ingested byte be skipped or wait.  (1) Whenever the ingestion task is
\* at the forward of the byte it read, write_sd has already stored that byte.
\* (2) A forward of byte i in progress does not hold back byte i+1: with the
\* line delivering it and the ingestion task scheduled, byte i+1 reaches the
\* card (or the program has stopped on a write error) whether or not the
\* consumer ever takes byte i.
Stored(b) ==
    \E j \in 1..Len(card) : card[j].w = ING /\ card[j].n = 1 /\ card[j].b = b

C13_StorageBeforeTap ==
    /\ [](pc[ING] \in {"i_fwd_lock", "i_fwd", "i_fwd_unlock"} => Stored(read_char))
    /\ \A i \in 1..(MaxTapReads - 1) :
         (pc[ING] = "i_fwd" /\ FORWARD_UART_LOGS /\ nread = i)
            ~> (aborted \/ Stored(i + 1))
\* ---------------------------------------------------------------- C14
\* C14: an Up or Down key never makes a history slot whose len is
\* CLI_EMPTY_LINELEN the current line and never prints such a slot: the key
\* either moves to a slot in use and shows that slot's text, or leaves
\* line_idx, the cursor and the terminal as they were.  Up pressed on the
\* oldest entry in use (the slot before it is empty) changes nothing, and at
\* every cli_read the current line is a slot in use.
C14_Step ==
    \A fw \in BOOLEAN :
        LET dest == move_line_index(line_idx, fw)
        IN  Recall(dest) =>
              IF lines[dest].len = CLI_EMPTY_LINELEN
              THEN line_idx' = line_idx /\ cursor' = cursor /\ term' = term
              ELSE /\ line_idx' = dest
                   /\ lines'[line_idx'].len # CLI_EMPTY_LINELEN
                   /\ smashed' \/ term' = TermLine(lines[dest].line_buf, 0, lines[dest].len)

C14_NoEmptyRecall ==
    /\ [](cli_pc = "read" => lines[line_idx].len # CLI_EMPTY_LINELEN)
    /\ [][C14_Step]_vars

\* two commands were entered, Up was pressed twice and the console sits on the
\* older one, with the empty slot behind it
C14_Witness ==
    /\ cli_pc = "read"
    /\ current_line = 2
    /\ line_idx = 0
    /\ lines[1].len > 0
    /\ lines[move_line_index(line_idx, FALSE)].len = CLI_EMPTY_LINELEN
    /\ term = TermLine(lines[0].line_buf, 0, lines[0].len)
    /\ nkeys >= 7

\* ---------------------------------------------------------------- C15
\* C15: from a prompt, for printable bytes and backspaces followed by CR with
\* the line kept below capacity, the string handed to handle_command is the
\* stack the same keys build (printable = push, backspace = pop if non-empty);
\* with an empty stack handle_command is not called.
C15_StackEdit ==
    (cli_pc = "prompt" /\ nkeys > 0 /\ typed # NoStack)
        => IF typed = <<>> THEN cmd = NoCmd ELSE cmd = typed

\* "aab", BS, BS, "b", CR on the first prompt dispatched "ab"
C15_Witness ==
    /\ cli_pc = "prompt"
    /\ nkeys = 7
    /\ line_idx = 1
    /\ typed = <<"a", "b">>
    /\ cmd = <<"a", "b">>
    /\ lines[0].line_buf[2] = NUL

\* ---------------------------------------------------------------- C16
\* C16: whenever start_cli waits for input, the current line satisfies
\* 0 <= cursor offset <= len <= CLI_MAX_LINE - 1, the offset being measured
\* from lines[line_idx].line_buf and len being lines[line_idx].len.
C16_CursorWithinLine ==
    cli_pc = "read" =>
        /\ 0 <= CursorOff
        /\ CursorOff <= lines[line_idx].len
        /\ lines[line_idx].len <= CLI_MAX_LINE - 1

\* ---------------------------------------------------------------- C17
\* C17: in every editor state a printable byte received while the current
\* line's len is below capacity is stored at the cursor, echoed, and extends
\* the current line's len by one exactly when the cursor was at the tail; and
\* the line dispatched on CR is the text shown on the terminal (no
\* unrecognised escape sequence having been echoed onto that line).
C17_Insert ==
    \A c \in Chars :
        (KeyChar(c) /\ lines[line_idx].len < CLI_MAX_LINE - 1) =>
            /\ lines'[line_idx].line_buf[CursorOff] = c
            /\ term' = TermPut(term, tcol, c)
            /\ lines'[line_idx].len =
                  IF CursorOff = lines[line_idx].len
                  THEN lines[line_idx].len + 1
                  ELSE lines[line_idx].len

C17_Dispatch ==
    (KeyReturn /\ ~esc_echoed /\ cmd' # NoCmd) => cmd' = Shown(term)

C17_InsertAtCursor == [][C17_Insert /\ C17_Dispatch]_vars
\* ---------------------------------------------------------------- C18
\* C18: in a single console session with no other task mounting or unmounting,
\* once 'mount' has returned without reporting a failed probe the card is
\* mounted, once 'unmount' has returned it is not, the mount state stays as
\* the last command left it until the next command has been dispatched, and
\* 'sdstatus' prints "mounted" exactly when sd_card_mounted() is true.
MountedTexts ==
    {"Success", "SD card is already mounted"} \cup {StatusText(TRUE, p) : p \in BOOLEAN}

UnmountedTexts ==
    {"SD card unmounted", "SD card is not mounted"}
        \cup {StatusText(FALSE, p) : p \in BOOLEAN}

C18_Idle ==
    pc[Session] = "idle" =>
        /\ out[Session] \in MountedTexts => SD_CARD_MOUNTED
        /\ out[Session] \in UnmountedTexts => ~SD_CARD_MOUNTED

C18_Step ==
    /\ (pc[Session] = "idle" /\ pc'[Session] # "idle")
          => SD_CARD_MOUNTED' = SD_CARD_MOUNTED
    /\ (pc[Session] = "s_chk" /\ pc'[Session] = "idle")
          => /\ SD_CARD_MOUNTED' = SD_CARD_MOUNTED
             /\ out'[Session] = StatusText(SD_CARD_MOUNTED, vcc)

C18_StatusFollowsCommand == []C18_Idle /\ [][C18_Step]_vars

\* the logger's boot-time mount failed and it still waits, the session's first
\* command mounted the card and its second, sdstatus, printed "mounted"
C18_Witness ==
    /\ pc[Session] = "idle"
    /\ ncmd = 2
    /\ out[Session] = StatusText(TRUE, TRUE)
    /\ pc[ING] = "ws_blocked"
    /\ SD_CARD_MOUNTED
\* ---------------------------------------------------------------- C19
\* C19: no task tries to acquire LOG_FORWARD_MUTEX while it holds
\* LOG_VAR_MUTEX (a task at the trylock of enable_log_forwarding, or one that
\* has just become holder of the permit, does not hold LOG_VAR_MUTEX), and the
\* two locks never deadlock: as long as the program runs, the task holding
\* LOG_VAR_MUTEX is not waiting for a lock, it can take its next step.
C19_Acquire ==
    \A t \in Tasks :
        (t \notin LOG_FORWARD_MUTEX /\ t \in LOG_FORWARD_MUTEX') => t \notin LOG_VAR_MUTEX

C19_HolderRuns ==
    \A h \in LOG_VAR_MUTEX :
        /\ pc[h] \notin {"e_trylock", "e_varlock", "d_varlock", "i_fwd_lock"}
        /\ ~aborted => ENABLED (FwdStep(h) \/ IngStep(h))

C19_LockOrder ==
    /\ [](\A t \in Tasks : pc[t] = "e_trylock" => t \notin LOG_VAR_MUTEX)
    /\ []C19_HolderRuns
    /\ [][C19_Acquire]_vars

\* one console holds the permit and waits in enable_log_forwarding for
\* LOG_VAR_MUTEX, the other waits for it in disable_log_forwarding, and the
\* ingestion loop holds it
C19_Witness ==
    /\ ING \in LOG_VAR_MUTEX
    /\ \E c, d \in Consoles :
         /\ pc[c] = "e_varlock"
         /\ c \in LOG_FORWARD_MUTEX
         /\ pc[d] = "d_varlock"
\* ---------------------------------------------------------------- C20
\* C20: the owner's stop_log_reader releases LOG_READER_CTX_MUTEX only after
\* the relay task has left its relay loop, disabled forwarding, cleared
\* CONTEXT and posted shutdown_ack_sem: the acknowledgement is posted with
\* forwarding off and CONTEXT cleared by a relay that then leaves for its
\* outer pend, the owner unlocks only from the point behind its pend on the
\* acknowledgement, and at the unlock CONTEXT is still cleared.  The relay
\* never writes to a session's context unless that session holds the permit.
C20_Ack ==
    shutdown_ack_sem' > shutdown_ack_sem =>
        /\ ~FORWARD_UART_LOGS
        /\ CONTEXT = NULL
        /\ pc[RDR] = "r_ack" /\ pc'[RDR] = "r_pend"

C20_Release ==
    \A c \in Consoles :
        (c \in LOG_READER_CTX_MUTEX /\ c \notin LOG_READER_CTX_MUTEX') =>
            /\ pc[c] = "st_unlock"
            /\ CONTEXT = NULL

C20_Taken ==
    \A c \in Consoles :
        (pc[c] # "st_unlock" /\ pc'[c] = "st_unlock") =>
            shutdown_ack_sem' = shutdown_ack_sem - 1

C20_Write ==
    cliOut' # cliOut =>
        /\ Len(cliOut') = Len(cliOut) + 1
        /\ cliOut'[Len(cliOut')][1] \in LOG_READER_CTX_MUTEX

C20_AckBeforeRelease ==
    /\ [](CONTEXT # NULL => CONTEXT \in LOG_READER_CTX_MUTEX)
    /\ [][C20_Ack /\ C20_Taken /\ C20_Release /\ C20_Write]_vars

\* a session started the relay, got bytes relayed, stopped it and has released
\* the permit; the relay is back at its outer pend with CONTEXT cleared
C20_Witness ==
    /\ \E c \in Consoles :
         /\ pc[c] = "idle"
         /\ out[c] = "Got handshake signal from log reader task"
         /\ ret[c] = 0
         /\ \E i \in 1..Len(cliOut) : cliOut[i][1] = c
    /\ LOG_READER_CTX_MUTEX = {}
    /\ CONTEXT = NULL
    /\ pc[RDR] = "r_pend"
\* ---------------------------------------------------------------- C21
\* C21: every stop_log_reader call made by the session that started the log
\* reader (it holds LOG_READER_CTX_MUTEX when it calls) eventually returns 0
\* with the relay stopped: forwarding off, CONTEXT cleared, the relay task back
\* at its outer pend.  The scheduler is fair; no logged data has to arrive,
\* and the relay task need not have consumed the start signal yet.
C21_StopReturns ==
    (pc[Session] = "st_chk" /\ Session \in LOG_READER_CTX_MUTEX)
        ~> \/ aborted
           \/ /\ pc[Session] = "idle" /\ ret[Session] = 0
              /\ Session \notin LOG_READER_CTX_MUTEX
              /\ ~FORWARD_UART_LOGS /\ CONTEXT = NULL /\ pc[RDR] = "r_pend"
\* ---------------------------------------------------------------- C22
\* C22: rtt enters passthrough only if enable_log_forwarding succeeded: a
\* session in the passthrough loop holds the permit with forwarding directed
\* to it, and a refused rtt returns 255 having consumed no input.  In
\* passthrough every input byte before the first 0x05 is written to the
\* logged line in order and the 0x05 is not written: the bytes the session
\* has put on the line end with exactly the bytes read so far, less the 0x05,
\* and nothing else writes to the line.  rtt returns 0 with its forwarding
\* disabled and the permit given back: the session no longer holds the permit,
\* forwarding is not directed to it, and its disable_log_forwarding switched
\* forwarding off.
RECURSIVE SentBy(_, _)
SentBy(tx, t) ==
    IF tx = <<>> THEN <<>>
    ELSE (IF Head(tx)[1] = t THEN <<Head(tx)[2]>> ELSE <<>>) \o SentBy(Tail(tx), t)

RECURSIVE BeforeCtrlE(_)
BeforeCtrlE(in) ==
    IF in = <<>> \/ Head(in) = CTRL_E THEN <<>> ELSE <<Head(in)>> \o BeforeCtrlE(Tail(in))

IsSuffix(a, b) ==
    Len(a) <= Len(b) /\ SubSeq(b, Len(b) - Len(a) + 1, Len(b)) = a

RttRefused == "Could not start terminal, another console is using log forwarding"

C22_Inv ==
    \A t \in Consoles :
        /\ pc[t] = "rt_read" =>
              /\ t \in LOG_FORWARD_MUTEX /\ FORWARD_UART_LOGS /\ CONTEXT = t
              /\ CTRL_E \notin {rtt_in[t][i] : i \in 1..Len(rtt_in[t])}
        /\ (pc[t] = "idle" /\ out[t] = RttRefused) => (rc[t] = 255 /\ rtt_in[t] = <<>>)
        /\ pc[t] \in {"rt_read", "rt_dis_ret"} =>
              IsSuffix(BeforeCtrlE(rtt_in[t]), SentBy(uartTx, t))
        /\ pc[t] = "rt_dis_ret" =>
              /\ rtt_in[t] = Append(BeforeCtrlE(rtt_in[t]), CTRL_E)
              /\ ret[t] = 0
              /\ t \notin LOG_FORWARD_MUTEX /\ CONTEXT # t

C22_Step ==
    /\ uartTx' # uartTx =>
          \E t \in Consoles, b \in RttBytes \ {CTRL_E} :
              /\ pc[t] = "rt_read"
              /\ rtt_in'[t] = Append(rtt_in[t], b)
              /\ uartTx' = Append(uartTx, <<t, b>>)
    /\ \A t \in Consoles :
          /\ (pc[t] = "rt_ret" /\ StepOf(t) /\ ret[t] # 0) =>
                (pc'[t] = "idle" /\ rc'[t] = 255 /\ UNCHANGED <<rtt_in, uartTx, fwdState>>)
          /\ (pc[t] = "d_reset" /\ StepOf(t) /\ Head(stk[t]) = "rt_dis_ret") =>
                (~FORWARD_UART_LOGS' /\ CONTEXT' = NULL)
          /\ (pc[t] = "rt_dis_ret" /\ StepOf(t)) =>
                (pc'[t] = "idle" /\ rc'[t] = 0 /\ t \notin LOG_FORWARD_MUTEX')

C22_Passthrough == []C22_Inv /\ [][C22_Step]_vars

\* one console typed 1, 2 and Ctrl-E into rtt and is back at its prompt with
\* status 0, the line got 1 then 2, the permit is free and forwarding is off;
\* the other console's rtt was refused meanwhile
C22_Witness ==
    \E a, b \in Consoles :
        /\ a # b
        /\ pc[a] = "idle" /\ rc[a] = 0 /\ rtt_in[a] = <<1, 2, CTRL_E>>
        /\ uartTx = << <<a, 1>>, <<a, 2>> >>
        /\ pc[b] = "idle" /\ out[b] = RttRefused /\ rc[b] = 255 /\ rtt_in[b] = <<>>
        /\ LOG_FORWARD_MUTEX = {} /\ ~FORWARD_UART_LOGS /\ CONTEXT = NULL
\* ---------------------------------------------------------------- C23
\* An ESC key was handled by this step, and its two bytes are not '[' followed
\* by one of A, B, C, D.
Recognised == {<<"[", k>> : k \in {"A", "B", "C", "D"}}
EscUnrecognised == nkeys' = nkeys + 1 /\ esc_buf' # <<>> /\ esc_buf' \notin Recognised
lineState == <<lines, cursor, line_idx>>
Echoed(buf) == term' = TermPut(TermPut(term, tcol, buf[1]), tcol + 1, buf[2])

\* C23 as claimed: after ESC the console consumes exactly 2 more bytes, and
\* every 2-byte sequence other than '[' A/B/C/D, whether its first byte is not
\* '[' or it is '[' and an unrecognised byte, is echoed verbatim and leaves
\* the line content, len, cursor and line_idx unchanged.
C23_EchoStep ==
    /\ (nkeys' = nkeys + 1 /\ esc_buf' # <<>>) => Len(esc_buf') = 2
    /\ EscUnrecognised => (Echoed(esc_buf') /\ UNCHANGED lineState)
C23_AllEchoed == [][C23_EchoStep]_vars

\* C23 as amended: after ESC the console consumes exactly 2 more bytes; when
\* the first is not '[' both bytes are echoed verbatim; '[' followed by a byte
\* other than A, B, C, D is ignored, nothing is written back; in both cases the
\* line content, len, cursor and line_idx are unchanged.
C23_IgnoreStep ==
    /\ (nkeys' = nkeys + 1 /\ esc_buf' # <<>>) => Len(esc_buf') = 2
    /\ EscUnrecognised =>
          /\ UNCHANGED lineState
          /\ IF esc_buf'[1] # "["
             THEN Echoed(esc_buf') /\ tcol' = tcol + 2
             ELSE UNCHANGED <<term, tcol>>
C23_BracketIgnored == [][C23_IgnoreStep]_vars

\* ESC b b was echoed at the start of the line, then "ab" was typed, then
\* ESC [ b: the line is "ab", the terminal shows "bbab" as before that key
C23_Witness ==
    /\ cli_pc = "read"
    /\ esc_buf = <<"[", "b">>
    /\ esc_echoed
    /\ lines[line_idx].len = 2
    /\ CursorOff = 2
    /\ term = <<"b", "b", "a", "b">>
\* ---------------------------------------------------------------- C24
\* the words of a line: its maximal runs of characters other than the space
RECURSIVE WordLen(_)
WordLen(s) == IF s = <<>> \/ Head(s) = SP THEN 0 ELSE 1 + WordLen(Tail(s))

RECURSIVE Words(_)
Words(s) ==
    IF s = <<>> THEN <<>>
    ELSE IF Head(s) = SP THEN Words(Tail(s))
    ELSE <<SubSeq(s, 1, WordLen(s))>> \o Words(SubSeq(s, WordLen(s) + 1, Len(s)))

\* C24: handle_command splits the submitted line on spaces into at most
\* MAX_ARGC = 8 tokens including the command name: a handler is invoked with
\* argc = min(number of tokens, 8) and argv[0..argc-1] the first argc tokens
\* in order; tokens beyond the eighth are not passed.
C24_ArgvIsTokens ==
    (hc_pc = "returned" /\ hc_entry # NoEntry) =>
        LET w == Words(hc_cmd)
        IN  /\ hc_argc <= MAX_ARGC
            /\ hc_argc = (IF Len(w) < MAX_ARGC THEN Len(w) ELSE MAX_ARGC)
            /\ hc_argv = SubSeq(w, 1, hc_argc)
            /\ hc_entry = w[1]

\* rtt was called on a line of nine words with double spaces between them: it
\* got the first eight
C24_Witness ==
    /\ hc_pc = "returned"
    /\ hc_entry = <<"r", "t", "t">>
    /\ Len(Words(hc_cmd)) = MaxWords
    /\ Len(hc_cmd) >= 2 * MaxWords
    /\ hc_argc = MAX_ARGC
    /\ hc_argv[MAX_ARGC] = Words(hc_cmd)[MAX_ARGC]

\* ---------------------------------------------------------------- C25
\* C25: for every non-empty submitted line whose first token equals no name in
\* COMMANDS, a line of spaces only (no first token) included, handle_command
\* invokes no handler, writes the unknown-command message and returns 0.
CommandNames == {COMMANDS[k] : k \in 1..Len(COMMANDS)}

C25_UnknownReported ==
    (/\ hc_pc # "idle"
     /\ hc_cmd # <<>>
     /\ Words(hc_cmd) = <<>> \/ Words(hc_cmd)[1] \notin CommandNames)
        => /\ hc_pc = "returned"
           /\ hc_entry = NoEntry
           /\ hc_out = UnknownCommand
           /\ hc_ret = 0

\* ---------------------------------------------------------------- C26
\* C26: filesize() called while the card is Unmounted, before any mount or
\* after unmount_sd_card, returns 0 or an error value, never the size of a
\* previously open log file.
C26_UnmountedSize ==
    [][(FilesizeChk(Session) /\ ~SD_CARD_MOUNTED) => ret'[Session] <= 0]_vars

\* filesize() returned 0 on a card that was never mounted
C26_NeverMounted ==
    /\ pc[Session] = "idle" /\ out[Session] = "SD card file size is: %d"
    /\ ~SD_CARD_MOUNTED /\ card = <<>> /\ ret[Session] = 0

\* filesize() returned the size of the file unmount_sd_card had closed
C26_StaleSize ==
    /\ pc[Session] = "idle" /\ out[Session] = "SD card file size is: %d"
    /\ ~SD_CARD_MOUNTED /\ ~LOGFILE /\ ret[Session] = Len(card) /\ ret[Session] > 0

\* ---------------------------------------------------------------- C27
Slept(t) == \E i \in 1..Len(hw[t]) : hw[t][i] = "Task_sleep"

\* C27: over the process lifetime the settle delay of attempt_sd_mount,
\* Task_sleep(250) under FIRST_INIT, is executed only during the very first
\* mount attempt; every later attempt, after a failed mount or after an
\* unmount, skips it.
C27_DelayOnlyFirst ==
    \A t \in Consoles : (pc[t] = "am_probe" /\ Slept(t)) => nattempt = 1

\* a second attempt slept again
C27_SleptAgain ==
    \E t \in Consoles : pc[t] = "am_probe" /\ Slept(t) /\ nattempt = 2

\* ---------------------------------------------------------------- C28
\* position of the first occurrence of call in a task's trace, 0 if none
FirstAt(trace, call) ==
    IF \E i \in 1..Len(trace) : trace[i] = call
    THEN CHOOSE i \in 1..Len(trace) :
            trace[i] = call /\ \A j \in 1..(i - 1) : trace[j] # call
    ELSE 0

\* C28: in every mount attempt that is not short-circuited by the
\* already-mounted check, SDSPI_open is called before the card is powered
\* (GPIO_write(Board_SDCARD_VCC, on)); power-on never precedes the bus open
\* within an attempt.
C28_OpenBeforePower ==
    \A t \in Tasks :
        pc[t] = "am_probe" =>
            /\ FirstAt(hw[t], "SDSPI_open") > 0
            /\ FirstAt(hw[t], "SDSPI_open") < FirstAt(hw[t], "vcc_on")

\* a console's mount attempt, the second command typed: the card was powered
\* before the bus was opened
C28_PowerFirst ==
    /\ pc[Session] = "am_probe"
    /\ hw[Session] = <<"vcc_on", "SDSPI_open">>
    /\ ncmd = 2

\* ---------------------------------------------------------------- C29
\* the current line: the len bytes of lines[line_idx].line_buf
CurrentText ==
    LET l == lines[line_idx]
    IN  IF l.len >= 0 /\ l.len <= CLI_MAX_LINE
        THEN [i \in 1..l.len |-> l.line_buf[i - 1]]
        ELSE <<>>

\* C29: after n >= 1 non-empty lines were submitted in a session, pressing Up
\* k times from a fresh prompt makes the k-th most recently submitted line the
\* current line, for 1 <= k <= min(n, CLI_HISTORY), whatever history
\* navigation and resubmission of recalled lines happened earlier.
C29_UpRecallsKth ==
    (cli_pc = "read" /\ ~smashed /\ ups >= 1 /\ ups <= Len(submitted))
        => CurrentText = submitted[Len(submitted) - ups + 1]

\* a, b submitted, a recalled with two Ups and resubmitted; at the next
\* prompt the second Up does not reach b
C29_HistoryCut ==
    /\ cli_pc = "read" /\ ~smashed
    /\ submitted = << <<"a">>, <<"b">>, <<"a">> >>
    /\ ups = 2
    /\ CurrentText # <<"b">>

\* a, b submitted with no navigation in between: two Ups show a
C29_PlainRecall ==
    /\ cli_pc = "read" /\ ~smashed
    /\ submitted = << <<"a">>, <<"b">> >>
    /\ ups = 2
    /\ CurrentText = <<"a">>

\* ---------------------------------------------------------------- C30
OtherSlotsKept ==
    \A i \in 0..(CLI_BUFCNT - 1) : i # line_idx => lines'[i] = lines[i]

\* cli_handle_return on a line of len 0
EmptyReturnStep ==
    (cli_pc = "read" /\ cli_pc' = "prompt" /\ lines[line_idx].len = 0) =>
        /\ term' = <<>> /\ tcol' = 0
        /\ lines'[line_idx].len = CLI_EMPTY_LINELEN
        /\ line_idx' = line_idx
        /\ cmd' = NoCmd
        /\ submitted' = submitted
        /\ OtherSlotsKept

\* the prompt that follows it
PromptAfterEmptyReturn ==
    (cli_pc = "prompt" /\ cli_pc' = "read" /\ nkeys > 0 /\ cmd = NoCmd) =>
        /\ line_idx' = line_idx
        /\ current_line' = line_idx
        /\ lines'[line_idx].len = 0
        /\ OtherSlotsKept

\* C30: a CR received when the current line has len == 0 echoes CRLF, marks
\* the current slot EMPTY, does not change line_idx, does not call
\* handle_command, and is followed by a new prompt on the same slot; no other
\* slot's len or content changes.
C30_EmptyReturn == [][EmptyReturnStep /\ PromptAfterEmptyReturn]_vars

\* a and b were submitted, a was recalled and emptied, CR was pressed on it:
\* the new prompt is on a's slot and the slot that held b is marked unused
C30_NextSlotCleared ==
    /\ cli_pc = "read" /\ ~smashed /\ ups = 0
    /\ cmd = NoCmd
    /\ submitted = << <<"a">>, <<"b">> >>
    /\ line_idx = 0
    /\ lines[1].len = CLI_EMPTY_LINELEN
    /\ lines[1].line_buf[0] = "b"

\* ---------------------------------------------------------------- C31
\* C31: lookahead invariant: at every point where the console waits for an
\* input byte, the slot immediately after the current slot (line_idx + 1
\* modulo CLI_BUFCNT) is marked EMPTY, after any sequence of inputs including
\* Up/Down history moves.
C31_Lookahead ==
    (cli_pc = "read" /\ ~smashed) =>
        lines[move_line_index(line_idx, TRUE)].len = CLI_EMPTY_LINELEN

\* the same for the slot the prompt was issued on (start_cli's current_line)
C31_PromptLookahead ==
    (cli_pc = "read" /\ ~smashed) =>
        lines[move_line_index(current_line, TRUE)].len = CLI_EMPTY_LINELEN

\* a and b were submitted and Up was pressed twice: the current slot holds a,
\* the slot after it holds b
C31_AfterUp ==
    /\ cli_pc = "read" /\ ~smashed /\ ups = 2
    /\ submitted = << <<"a">>, <<"b">> >>
    /\ CurrentText = <<"a">>
    /\ lines[move_line_index(line_idx, TRUE)].len = 1

\* ---------------------------------------------------------------- C32
\* the cursor is at the tail of a non-empty current line
AtTailOfText == lines[line_idx].len > 0 /\ CursorOff = lines[line_idx].len

\* C32: a backspace takes effect only when the cursor is at the tail of a
\* non-empty current line, where it writes "\b \b", decrements len by one and
\* moves the cursor back by one; when the cursor is not at the tail or the
\* line is empty it writes nothing and leaves len, cursor, content and
\* line_idx unchanged.
C32_BackspaceStep ==
    KeyBackspace =>
        /\ line_idx' = line_idx
        /\ IF AtTailOfText
           THEN /\ term' = TermPut(term, tcol - 1, SP)
                /\ tcol' = tcol - 1
                /\ lines'[line_idx].len = lines[line_idx].len - 1
                /\ cursor' = cursor - 1
                /\ \A i \in 0..(CLI_BUFCNT - 1) : i # line_idx => lines'[i] = lines[i]
           ELSE UNCHANGED <<term, tcol, lines, cursor>>

C32_Backspace == [][C32_BackspaceStep]_vars

\* a, b, BS typed at the first prompt: the line is "a" and the terminal shows
\* "a" followed by the blanked column
C32_Witness ==
    /\ cli_pc = "read" /\ nkeys = 3 /\ line_idx = 0
    /\ typed = <<"a">>
    /\ term = <<"a", SP>> /\ tcol = 1
    /\ lines[0].len = 1 /\ CursorOff = 1
    /\ lines[0].line_buf[1] = NUL

\* ---------------------------------------------------------------- C33
\* C33: an arrow key that would go out of range is a no-op: Up or Down onto
\* an EMPTY slot, Right with the cursor at the tail, and Left with the cursor
\* at column 0 each write nothing to the terminal and leave line_idx, cursor
\* and every slot's len and content unchanged.
OutOfRangeArrow ==
    \/ KeyUp /\ lines[move_line_index(line_idx, FALSE)].len = CLI_EMPTY_LINELEN
    \/ KeyDown /\ lines[move_line_index(line_idx, TRUE)].len = CLI_EMPTY_LINELEN
    \/ KeyRight /\ CursorOff = lines[line_idx].len
    \/ KeyLeft /\ CursorOff = 0

C33_ArrowNoOp ==
    [][OutOfRangeArrow => UNCHANGED <<term, tcol, line_idx, cursor, lines>>]_vars

\* "a" typed at the first prompt, then Up with no history: nothing moved
C33_Witness ==
    /\ cli_pc = "read" /\ nkeys = 2 /\ submitted = <<>>
    /\ esc_buf = <<"[", "A">>
    /\ line_idx = 0 /\ lines[0].len = 1 /\ CursorOff = 1
    /\ term = <<"a">> /\ tcol = 1

\* ---------------------------------------------------------------- C34
Called(trace, call) == \E i \in 1..Len(trace) : trace[i] = call

\* C34: when the liveness probe fails in attempt_sd_mount, the call returns
\* false with SD_CARD_MOUNTED false, the SPI bus handle closed and card power
\* off, the log file is not opened, SD_CARD_READY is not broadcast, and
\* SD_CARD_RW_MUTEX is released.
C34_FailedProbeStep ==
    \A t \in Tasks :
        (AmUnlock(t) /\ ret[t] = 0) =>
            /\ ret'[t] = 0
            /\ ~SD_CARD_MOUNTED'
            /\ ~SDSPI_HANDLE'
            /\ ~vcc'
            /\ ~LOGFILE' /\ ~Called(hw'[t], "f_open")
            /\ ~Called(hw'[t], "broadcast") /\ SD_CARD_READY' = SD_CARD_READY
            /\ t \notin SD_CARD_RW_MUTEX'

C34_FailedProbe == [][C34_FailedProbeStep]_vars

\* the ingestion task's boot-time attempt came back false: bus closed, power
\* off, no file, mutex free
C34_Witness ==
    /\ pc[ING] = "i_boot_ret" /\ ret[ING] = 0
    /\ hw[ING] = <<"vcc_on", "SDSPI_open", "f_getfree", "SDSPI_close", "vcc_off">>
    /\ SD_CARD_RW_MUTEX = {}
    /\ ~SD_CARD_MOUNTED /\ ~SDSPI_HANDLE /\ ~vcc /\ ~LOGFILE

\* ---------------------------------------------------------------- C35
\* C35: only a successful mount wakes waiters: a task blocked in
\* wait_sd_ready stays blocked across any number of unmount_sd_card calls and
\* failed attempt_sd_mount calls, and is released only by the broadcast of a
\* successful attempt_sd_mount.
C35_WakeStep ==
    \A t \in Tasks :
        /\ (t \in SD_CARD_READY /\ t \notin SD_CARD_READY') =>
              \E u \in Tasks : AmFinish(u) /\ ret[u] = 1 /\ SD_CARD_MOUNTED
                                /\ Called(hw'[u], "broadcast")
        /\ (pc[t] = "ws_blocked" /\ pc'[t] # "ws_blocked") => t \notin SD_CARD_READY

C35_OnlyMountWakes == [][C35_WakeStep]_vars

\* the ingestion task is still blocked in wait_sd_ready after a console
\* unmounted the card
C35_Witness ==
    /\ pc[ING] = "ws_blocked" /\ ING \in SD_CARD_READY
    /\ \E t \in Consoles : pc[t] = "idle" /\ out[t] = "SD card unmounted"
    /\ ~SD_CARD_MOUNTED /\ SD_CARD_RW_MUTEX = {}

\* ---------------------------------------------------------------- C36
\* C36: in the ring-based forwarding implementation the count of
\* logger_data_avail_sem equals the number of unread elements in
\* uart_log_queue whenever neither the producer nor the relay consumer is in
\* the middle of an enqueue or dequeue, so wait_logger_data blocks exactly
\* when the queue is empty.
C36_SemTracksQueue ==
    (pc[ING] = "q_read" /\ pc[RDR] \in {"r_pend", "r_loop"}) =>
        logger_data_avail_sem = Len(Retrievable)

\* one byte was enqueued and relayed: the queue is empty and the semaphore
\* still counts one, so the next wait_logger_data returns at once
C36_StalePost ==
    /\ pc[ING] = "q_read" /\ pc[RDR] = "r_loop"
    /\ Queue_empty(uart_log_queue)
    /\ Len(cliOut) = 1
    /\ logger_data_avail_sem = 1

\* ---------------------------------------------------------------- C37
\* C37: after any sequence of console commands (mount, unmount, sdpwr on,
\* sdpwr off), whenever SD_CARD_MOUNTED is true and SD_CARD_RW_MUTEX is free
\* the card's power line is on; mount and power state are changed only by
\* the storage operations under their lock.
C37_MountedIsPowered ==
    (SD_CARD_MOUNTED /\ SD_CARD_RW_MUTEX = {}) => vcc

\* mount succeeded, then sdpwr off: mounted, file open, power off
C37_PoweredOffMounted ==
    /\ SD_CARD_MOUNTED /\ LOGFILE /\ SD_CARD_RW_MUTEX = {} /\ ~vcc
    /\ \E t \in Consoles : pc[t] = "idle" /\ out[t] = "SD card power off"

\* ---------------------------------------------------------------- C38
\* C38: whenever the ingestion task observes FORWARD_UART_LOGS true under
\* LOG_VAR_MUTEX, CONTEXT is non-NULL and is the context passed to the most
\* recent successful enable_log_forwarding that has not been followed by a
\* successful disable_log_forwarding; no byte is forwarded through a NULL or
\* stale context, for any interleaving of enable and disable calls.
\* A task is in LOG_FORWARD_MUTEX from its successful trylock in
\* enable_log_forwarding to its successful unlock in disable_log_forwarding;
\* it has left the assignment of enable_log_forwarding behind when it is at
\* neither "e_varlock" nor "e_set".
CurrentForwarder(t) ==
    /\ LOG_FORWARD_MUTEX = {t}
    /\ pc[t] \notin {"e_varlock", "e_set"}

C38_Inv ==
    /\ (FORWARD_UART_LOGS /\ LOG_VAR_MUTEX \subseteq {ING}) =>
          (CONTEXT # NULL /\ CurrentForwarder(CONTEXT))
    /\ \A i \in 1..Len(cliOut) : cliOut[i][1] # NULL

C38_ObserveStep ==
    (IFwd(ING) /\ FORWARD_UART_LOGS) =>
        /\ ING \in LOG_VAR_MUTEX
        /\ CONTEXT # NULL
        /\ CurrentForwarder(CONTEXT)
        /\ cliOut' = Append(cliOut, <<CONTEXT, read_char>>)

C38_FreshContext == []C38_Inv /\ [][C38_ObserveStep]_vars

\* a byte went to one console, that console disconnected, the other one
\* connected and a later byte went to it
C38_Witness ==
    /\ \E i, j \in 1..Len(cliOut) : i < j /\ cliOut[i][1] # cliOut[j][1]
    /\ pc[ING] = "i_fwd_unlock"
    /\ FORWARD_UART_LOGS /\ CONTEXT = cliOut[Len(cliOut)][1]

\* ---------------------------------------------------------------- C39
\* C39: the data bytes the ingestion task writes to the log are an in-order
\* subsequence of the bytes it read from the line, each written at most
\* once; a byte is written exactly when sd_card_mounted() was true at the
\* check following its read, and a byte read when the card was found
\* unmounted is discarded and never written after a later remount.
\* The ingestion task is at "i_wr_ret" when the check that followed the read
\* of read_char was true and its write_sd(&read_char, 1) has returned.
DataBytes == SelectSeq(card, LAMBDA u : u.w = ING /\ u.n = 1)

ByteLogged(b) == \E i \in 1..Len(DataBytes) : DataBytes[i].b = b

C39_CheckedByteWritten ==
    pc[ING] = "i_wr_ret" => ByteLogged(read_char)

\* the check was true, a console's unmount ran before write_sd took the
\* lock, and write_sd returned -1 with the byte not on the card
C39_LostToUnmount ==
    /\ pc[ING] = "i_wr_ret" /\ ret[ING] = -1
    /\ ~SD_CARD_MOUNTED /\ ~LOGFILE
    /\ ~ByteLogged(read_char)
    /\ \E t \in Consoles : out[t] = "SD card unmounted"

\* ---------------------------------------------------------------- C40
\* C40: the teardown in unmount_sd_card (f_sync / f_close of LOGFILE, power
\* off, SDSPI_close) is executed only when the card is mounted: for any
\* interleaving of two tasks issuing the unmount command, the log file and
\* the SPI handle are never closed a second time while already closed.
C40_TeardownStep ==
    \A t \in Consoles :
        UmBody(t) => (SD_CARD_MOUNTED /\ LOGFILE /\ SDSPI_HANDLE)

C40_TeardownOnlyMounted == [][C40_TeardownStep]_vars

\* both consoles typed unmount after the one mount at boot, both passed the
\* sd_card_mounted() check, and the second one is inside unmount_sd_card with
\* the file and the handle already closed
C40_SecondTeardown ==
    \E t, u \in Consoles :
        /\ t # u
        /\ pc[u] = "idle" /\ out[u] = "SD card unmounted"
        /\ pc[t] = "um_body" /\ t \in SD_CARD_RW_MUTEX
        /\ ~SD_CARD_MOUNTED /\ ~LOGFILE /\ ~SDSPI_HANDLE
====
